---- MODULE Spec2Model ----
(***************************************************************************)
(* Model of mcp-agents (server.js, release 0.5.5): the tools/call handler  *)
(* with its retry loop, runCli (spawn of a detached process group, stream  *)
(* accounting, deadline timer, group kill) and the operating-system side   *)
(* of a spawned process group (leader, descendants, pipes).                *)
(*                                                                         *)
(* Text is a sequence of tokens.  A token is one byte of text, except the  *)
(* token BIG, which stands for MAX_BUFFER_BYTES bytes of ordinary text,    *)
(* and the JSON tokens, each of which stands for one JSON document.        *)
(***************************************************************************)
EXTENDS Integers, Sequences, FiniteSets, TLC

\* ------------------------------------------------------------------ bounds
MaxTime == 2
MaxChunks == 2
MaxDesc == 1
MaxSignals == 2
MaxArgs == 3

\* ------------------------------------------------------- program constants
DEFAULT_TIMEOUT_MS == 300000
MAX_BUFFER_BYTES == 10 * 1024 * 1024
CLAUDE_EMPTY_OUTPUT_MAX_ATTEMPTS == 2

\* -------------------------------------------------------------------- text
WS == " "
TXT == "a"
BIG == "B"
J_ERR == "{type:result,is_error:true,result:a}"
J_ERR_BLANK == "{type:result,is_error:true,result:}"
J_BLANK == "{type:result,is_error:false,result: }"
J_OK == "{type:result,is_error:false,result:a}"
J_ERR_STRING == "{type:result,is_error:'true',result:a}"
J_ERR_ONE == "{type:result,is_error:1,result:a}"
J_NO_FLAG == "{type:result,result:a}"
J_NO_RESULT == "{type:result,is_error:true}"
J_OTHER_TYPE == "{type:message,is_error:true,result:a}"
J_NO_TYPE == "{is_error:true,result:a}"
J_ARRAY == "[{type:result,is_error:true}]"
J_NULL == "null"
J_NUMBER == "1"
J_STRING == "'result'"

JsonTokens == {J_ERR, J_ERR_BLANK, J_BLANK, J_OK, J_ERR_STRING, J_ERR_ONE, J_NO_FLAG,
               J_NO_RESULT, J_OTHER_TYPE, J_NO_TYPE, J_ARRAY, J_NULL, J_NUMBER, J_STRING}

\* chunk.length of a chunk holding the token
TokBytes(tok) == IF tok = BIG THEN MAX_BUFFER_BYTES ELSE 1

RECURSIVE TrimStart(_)
TrimStart(s) ==
  IF s = <<>> THEN <<>>
  ELSE IF Head(s) = WS THEN TrimStart(Tail(s)) ELSE s

RECURSIVE TrimEnd(_)
TrimEnd(s) ==
  IF s = <<>> THEN <<>>
  ELSE IF s[Len(s)] = WS THEN TrimEnd(SubSeq(s, 1, Len(s) - 1)) ELSE s

Trim(s) == TrimEnd(TrimStart(s))

\* JavaScript truthiness of a string
Truthy(s) == s # <<>>

\* ------------------------------------------------------------ JSON values
Undefined == [t |-> "undefined"]
Null == [t |-> "null"]
Str(s) == [t |-> "string", v |-> s]
Num(n) == [t |-> "number", v |-> n]
Bool(b) == [t |-> "boolean", v |-> b]

Object(type, is_error, result) ==
  [t |-> "object", type |-> type, is_error |-> is_error, result |-> result]
Array == [t |-> "array"]

\* the value a JSON token denotes; a key the document lacks reads as undefined
JsonValue(tok) ==
  CASE tok = J_ERR -> Object(Str(<<"result">>), Bool(TRUE), Str(<<TXT>>))
    [] tok = J_ERR_BLANK -> Object(Str(<<"result">>), Bool(TRUE), Str(<<>>))
    [] tok = J_BLANK -> Object(Str(<<"result">>), Bool(FALSE), Str(<<WS>>))
    [] tok = J_OK -> Object(Str(<<"result">>), Bool(FALSE), Str(<<TXT>>))
    [] tok = J_ERR_STRING -> Object(Str(<<"result">>), Str(<<"true">>), Str(<<TXT>>))
    [] tok = J_ERR_ONE -> Object(Str(<<"result">>), Num(1), Str(<<TXT>>))
    [] tok = J_NO_FLAG -> Object(Str(<<"result">>), Undefined, Str(<<TXT>>))
    [] tok = J_NO_RESULT -> Object(Str(<<"result">>), Bool(TRUE), Undefined)
    [] tok = J_OTHER_TYPE -> Object(Str(<<"message">>), Bool(TRUE), Str(<<TXT>>))
    [] tok = J_NO_TYPE -> Object(Undefined, Bool(TRUE), Str(<<TXT>>))
    [] tok = J_ARRAY -> Array
    [] tok = J_NULL -> Null
    [] tok = J_NUMBER -> Num(1)
    [] tok = J_STRING -> Str(<<"result">>)

\* JSON.parse: the text must be exactly one document
JsonParse(s) ==
  IF Len(s) = 1 /\ s[1] \in JsonTokens
  THEN [ok |-> TRUE, value |-> JsonValue(s[1])]
  ELSE [ok |-> FALSE, value |-> Undefined]

\* JavaScript truthiness of a value
TruthyValue(value) ==
  CASE value.t \in {"undefined", "null"} -> FALSE
    [] value.t = "string" -> value.v # <<>>
    [] value.t = "number" -> value.v # 0
    [] value.t = "boolean" -> value.v
    [] OTHER -> TRUE

\* typeof value === "object"
TypeofObject(value) == value.t \in {"object", "array", "null"}

\* value[key] for key in type, is_error, result
Get(value, key) ==
  IF value.t # "object" THEN Undefined
  ELSE CASE key = "type" -> value.type
         [] key = "is_error" -> value.is_error
         [] key = "result" -> value.result

\* value === true
IsTrue(value) == value.t = "boolean" /\ value.v

\* value === s for a string s
IsString(value, s) == value.t = "string" /\ value.v = s

toStringArg(value) ==
  CASE value.t = "string" -> value.v
    [] value.t \in {"undefined", "null"} -> <<>>
    [] value.t = "number" -> <<ToString(value.v)>>
    [] value.t = "boolean" -> IF value.v THEN <<"true">> ELSE <<"false">>

\* variant: any truthy is_error flags the result
normalizeToolOutputLoose(prov, output) ==
  IF prov # "claude" THEN [text |-> output, isError |-> FALSE]
  ELSE
    LET trimmed == Trim(output) IN
    IF ~Truthy(trimmed) THEN [text |-> <<>>, isError |-> FALSE]
    ELSE
      LET parsed == JsonParse(trimmed) IN
      IF /\ parsed.ok /\ TruthyValue(parsed.value) /\ TypeofObject(parsed.value)
         /\ IsString(Get(parsed.value, "type"), <<"result">>)
      THEN [text |-> toStringArg(Get(parsed.value, "result")),
            isError |-> TruthyValue(Get(parsed.value, "is_error"))]
      ELSE [text |-> output, isError |-> FALSE]

\* variant: text that is not JSON is flagged as an error
normalizeToolOutputJsonOnly(prov, output) ==
  IF prov # "claude" THEN [text |-> output, isError |-> FALSE]
  ELSE
    LET trimmed == Trim(output) IN
    IF ~Truthy(trimmed) THEN [text |-> <<>>, isError |-> FALSE]
    ELSE
      LET parsed == JsonParse(trimmed) IN
      IF /\ parsed.ok /\ TruthyValue(parsed.value) /\ TypeofObject(parsed.value)
         /\ IsString(Get(parsed.value, "type"), <<"result">>)
      THEN [text |-> toStringArg(Get(parsed.value, "result")),
            isError |-> IsTrue(Get(parsed.value, "is_error"))]
      ELSE [text |-> output, isError |-> ~parsed.ok]

\* variant: an output of any other shape is returned trimmed
normalizeToolOutputTrimmed(prov, output) ==
  IF prov # "claude" THEN [text |-> output, isError |-> FALSE]
  ELSE
    LET trimmed == Trim(output) IN
    IF ~Truthy(trimmed) THEN [text |-> <<>>, isError |-> FALSE]
    ELSE
      LET parsed == JsonParse(trimmed) IN
      IF /\ parsed.ok /\ TruthyValue(parsed.value) /\ TypeofObject(parsed.value)
         /\ IsString(Get(parsed.value, "type"), <<"result">>)
      THEN [text |-> toStringArg(Get(parsed.value, "result")),
            isError |-> IsTrue(Get(parsed.value, "is_error"))]
      ELSE [text |-> trimmed, isError |-> FALSE]

normalizeToolOutput(prov, output) ==
  IF prov # "claude" THEN [text |-> output, isError |-> FALSE]
  ELSE
    LET trimmed == Trim(output) IN
    IF ~Truthy(trimmed) THEN [text |-> <<>>, isError |-> FALSE]
    ELSE
      LET parsed == JsonParse(trimmed) IN
      IF /\ parsed.ok /\ TruthyValue(parsed.value) /\ TypeofObject(parsed.value)
         /\ IsString(Get(parsed.value, "type"), <<"result">>)
      THEN [text |-> toStringArg(Get(parsed.value, "result")),
            isError |-> IsTrue(Get(parsed.value, "is_error"))]
      ELSE [text |-> output, isError |-> FALSE]

\* ---------------------------------------------------------------- backends
Providers == {"claude", "gemini"}
Command(prov) == prov
ToolName(prov) == IF prov = "claude" THEN "claude_code" ELSE "gemini"
\* variant: no backend takes its prompt on stdin
StdinPromptNever(prov) == FALSE

StdinPrompt(prov) == prov = "claude"

\* Object.keys(backend.extraProperties)
ExtraProperties(prov) == IF prov = "gemini" THEN {"sandbox"} ELSE {}

\* one element of an argument list: a string, as a sequence of tokens
Arg(s) == <<s>>

\* backend.buildArgs; claude's takes no prompt and reads no option
BuildArgs(prov, prompt, opts) ==
  IF prov = "claude"
  THEN <<Arg("--no-session-persistence"), Arg("-p"), Arg("--output-format"), Arg("json")>>
  ELSE (IF IsTrue(opts.sandbox) THEN <<Arg("-s")>> ELSE <<>>) \o <<Arg("-p"), prompt>>

\* variant: one attempt more for claude
MaxAttemptsPlusOne(prov) ==
  IF prov = "claude" THEN CLAUDE_EMPTY_OUTPUT_MAX_ATTEMPTS + 1 ELSE 1

\* variant: every backend gets the attempts of claude
MaxAttemptsForAll(prov) == CLAUDE_EMPTY_OUTPUT_MAX_ATTEMPTS

MaxAttempts(prov) ==
  IF prov = "claude" THEN CLAUDE_EMPTY_OUTPUT_MAX_ATTEMPTS ELSE 1


\* ---------------------------------------------------------------- requests
PromptValues == {Undefined, Null, Str(<<>>), Str(<<WS>>), Str(<<WS, TXT>>)}
TimeoutValues == {Undefined} \cup {Num(n) : n \in {-1, 0, 1, 2}}
ToolNames == {"ping", "claude_code", "gemini"}
\* params of a tools/call request: name, and the keys of params.arguments that
\* the model follows (undefined stands for an absent key)
Requests ==
  [name : ToolNames, prompt : PromptValues, timeout_ms : TimeoutValues,
   sandbox : {Undefined}, model : {Undefined}]
NoRequest == [name |-> "", prompt |-> Undefined, timeout_ms |-> Undefined,
              sandbox |-> Undefined, model |-> Undefined]

ArgKeys == {"prompt", "timeout_ms", "sandbox", "model"}

\* rawArgs[key]
RawArg(r, key) ==
  CASE key = "prompt" -> r.prompt
    [] key = "timeout_ms" -> r.timeout_ms
    [] key = "sandbox" -> r.sandbox
    [] key = "model" -> r.model

AllowedArgKeys(prov) == {"prompt", "timeout_ms"} \cup ExtraProperties(prov)

\* variant: every key of the request is taken as supported
IgnoreNoKeys(prov, r) == {}

IgnoredArgKeys(prov, r) ==
  {key \in ArgKeys : RawArg(r, key).t # "undefined" /\ key \notin AllowedArgKeys(prov)}

\* value == null
Nullish(value) == value.t \in {"undefined", "null"}

\* variant: the startup default is not applied
ExtraOptsNoDefault(prov, r, sandboxDefault) ==
  [sandbox |-> IF "sandbox" \in ExtraProperties(prov) THEN r.sandbox ELSE Undefined]

\* extraOpts: rawArgs[key] ?? backend.extraProperties[key].default
ExtraOpts(prov, r, sandboxDefault) ==
  [sandbox |-> IF "sandbox" \in ExtraProperties(prov)
               THEN (IF Nullish(r.sandbox) THEN Bool(sandboxDefault) ELSE r.sandbox)
               ELSE Undefined]

\* the number n + 0.5
Half(n) == [t |-> "number", v |-> n, half |-> TRUE]

\* Number.isInteger
IsInteger(value) == value.t = "number" /\ "half" \notin DOMAIN value

\* --------------------------------------------------------------- responses
Text(s) == [k |-> "text", s |-> s]
Msg(k, command) == [k |-> k, command |-> command]
NoResponse == [isError |-> FALSE, text |-> [k |-> "none"]]
Success(text) == [isError |-> FALSE, text |-> text]
Failure(text) == [isError |-> TRUE, text |-> text]

\* ------------------------------------------------------------------- state
VARIABLES
  provider,        \* providerName, fixed at startup
  effectiveTimeout,\* defaultTimeoutMs ?? DEFAULT_TIMEOUT_MS
  sandbox,         \* backend.extraProperties.sandbox.default, set from --sandbox
  now,             \* Date.now(), relative to the arrival of the call
  pc,              \* position of the tools/call handler
  req,             \* params of the call being served
  prompt,          \* toStringArg(rawArgs.prompt)
  timeoutMs,       \* the call's budget
  startedAt,       \* handler's startedAt
  cliArgs,         \* the argument list built for the call
  ignoredArgKeys,  \* the keys named in the "ignoring unsupported args" log line
  attempt,         \* loop counter
  lastResult,      \* TRUE when lastResult is set
  lastNormalized,  \* lastNormalized
  response,        \* the response returned for the call
  respCount,       \* responses returned for the call
  spawnCount,      \* spawn() calls made for the call
  run,             \* the closure of the runCli call in flight
  leader,          \* the spawned child, leader of its process group
  desc,            \* descendants of the child
  orphans,         \* live processes in the groups of the call's earlier attempts
  timedOut,        \* history: the deadline timer of the call fired on a running child
  loopExit,        \* history: why the retry loop ended ("budget" or "attempts")
  blankExits,      \* history: attempts that exited cleanly with output empty after trimming
  blankNorm,       \* history: attempts that exited cleanly with blank normalized text
  codex,           \* pass-through mode: the host process and its codex child
  server,          \* the host process: its arguments, its mode and what keeps it running
  wrote,           \* what the latest writing step wrote to the host's stdout and stderr
  other            \* a second invocation of the handler, while its callbacks are not running

vars == <<provider, effectiveTimeout, sandbox, now, pc, req, prompt, timeoutMs,
          startedAt, cliArgs, ignoredArgKeys, attempt, lastResult, lastNormalized,
          response, respCount, spawnCount, run, leader, desc, orphans, timedOut,
          loopExit, blankExits, blankNorm, codex, server, wrote, other>>

callVars == <<req, prompt, timeoutMs, startedAt, cliArgs, ignoredArgKeys>>
handlerVars == <<pc, callVars, attempt, lastResult, lastNormalized, response, respCount>>
configVars == <<provider, effectiveTimeout, sandbox>>
histVars == <<timedOut, loopExit, blankExits, blankNorm>>

Desc == 1..MaxDesc

NoStdin == [data |-> <<>>, ended |-> FALSE]
NoRun == [child |-> "none", args |-> <<>>, stdin |-> NoStdin, timer |-> FALSE, timerFired |-> FALSE,
          t0 |-> 0, budget |-> 0, settled |-> FALSE, outcome |-> [k |-> "pending"],
          stdout |-> <<>>, stderr |-> <<>>, stdoutLen |-> 0, stderrLen |-> 0,
          chunks |-> 0, errored |-> FALSE, closed |-> FALSE]
NoLeader == [st |-> "none", code |-> 0, sig |-> ""]
NoDesc == [st |-> "none", inGroup |-> FALSE, holdsPipe |-> FALSE]
NoNormalized == [text |-> <<>>, isError |-> FALSE]

\* pass-through mode is not in use
NoCodex == [host |-> [st |-> "none"], child |-> [st |-> "none"]]

\* variant: console.log(message), which writes to stdout
logToStdout(message) == [fd |-> "stdout", text |-> message]

\* logErr(message): process.stderr.write
logErr(message) == [fd |-> "stderr", text |-> message]

\* console.log(message), used by --help and --version
consoleLog(message) == [fd |-> "stdout", text |-> message]

\* transport.send(message): the SDK's stdio transport writes to process.stdout
Send(message) == [fd |-> "stdout", text |-> message]

\* variant: no interval is set
NoKeepAlive == FALSE

\* setInterval(() => {}, 60_000): the interval is armed
KeepAlive == TRUE

\* backend.extraProperties.sandbox: gemini's table entry alone has one
HasSandboxProperty(prov) == prov = "gemini"

\* the host process once main has connected the server
Serving(prov) ==
  [ st |-> "serving",
    argv |-> <<>>,             \* process.argv.slice(2) while parseArgs has not run
    keepAlive |-> KeepAlive,
    stdin |-> "open",
    transport |-> "open",
    exitCode |-> -1,           \* process.exitCode; -1 stands for not set
    status |-> 0,              \* the exit status once st is "exited"
    sandboxWrites |-> IF HasSandboxProperty(prov) THEN 1 ELSE 0,
                               \* history: assignments to the sandbox default
    faulted |-> FALSE,         \* history: a top-level handler has run
    eofAt |-> "" ]             \* history: the handler's position when stdin ended

\* the host process once main has called runCodexPassthrough
Passthrough ==
  [Serving("codex") EXCEPT !.st = "passthrough", !.keepAlive = FALSE, !.transport = "none"]

ReadyLog == "[mcp-agents] ready"
PassthroughLog == "[mcp-agents] passthrough: codex"

\* what one invocation of the request handler owns: the locals of the handler's
\* activation, the closure of its runCli call and the process group it spawned
Locals ==
  [pc |-> pc, req |-> req, prompt |-> prompt, timeoutMs |-> timeoutMs,
   startedAt |-> startedAt, cliArgs |-> cliArgs, ignoredArgKeys |-> ignoredArgKeys,
   attempt |-> attempt, lastResult |-> lastResult, lastNormalized |-> lastNormalized,
   response |-> response, respCount |-> respCount, spawnCount |-> spawnCount,
   run |-> run, leader |-> leader, desc |-> desc, orphans |-> orphans,
   timedOut |-> timedOut, loopExit |-> loopExit, blankExits |-> blankExits,
   blankNorm |-> blankNorm]

\* the second invocation, not called yet; the variables above are those of
\* invocation 3 - id
NoOther ==
  [id |-> 2, locals |->
  [pc |-> "idle", req |-> NoRequest, prompt |-> <<>>, timeoutMs |-> 0,
   startedAt |-> 0, cliArgs |-> <<>>, ignoredArgKeys |-> {},
   attempt |-> 0, lastResult |-> FALSE, lastNormalized |-> NoNormalized,
   response |-> NoResponse, respCount |-> 0, spawnCount |-> 0,
   run |-> NoRun, leader |-> NoLeader, desc |-> [d \in Desc |-> NoDesc], orphans |-> 0,
   timedOut |-> FALSE, loopExit |-> "", blankExits |-> 0, blankNorm |-> 0]]

\* the server is connected and no call is being served
ServerIdle ==
  /\ now = 0
  /\ pc = "idle"
  /\ req = NoRequest
  /\ prompt = <<>>
  /\ timeoutMs = 0
  /\ startedAt = 0
  /\ cliArgs = <<>>
  /\ ignoredArgKeys = {}
  /\ attempt = 0
  /\ lastResult = FALSE
  /\ lastNormalized = NoNormalized
  /\ response = NoResponse
  /\ respCount = 0
  /\ spawnCount = 0
  /\ run = NoRun
  /\ leader = NoLeader
  /\ desc = [d \in Desc |-> NoDesc]
  /\ orphans = 0
  /\ timedOut = FALSE
  /\ loopExit = ""
  /\ blankExits = 0
  /\ blankNorm = 0
  /\ other = NoOther

\* started with --provider claude or --provider gemini and no other flag
Init ==
  /\ provider \in Providers
  /\ effectiveTimeout = DEFAULT_TIMEOUT_MS
  /\ sandbox = FALSE
  /\ ServerIdle
  /\ codex = NoCodex
  /\ server = Serving(provider)
  /\ wrote = {logErr(ReadyLog)}

\* live processes whose process group is the child's
GroupAlive(ld, ds) ==
  (IF ld.st = "running" THEN {0} ELSE {})
    \cup {d \in Desc : ds[d].st = "alive" /\ ds[d].inGroup}

\* live processes that hold the write end of the child's stdout/stderr pipes
PipeHolders(ld, ds) ==
  (IF ld.st = "running" THEN {0} ELSE {})
    \cup {d \in Desc : ds[d].st = "alive" /\ ds[d].holdsPipe}


\* ------------------------------------------------------------------ runCli
NoError == [k |-> "none"]

StdoutOverflowError(command) ==
  [k |-> "maxBuffer exceeded", command |-> command, stream |-> "stdout"]

\* variant: the stderr handler copies the stdout handler's message
StderrOverflowNamesStdout(command) ==
  [k |-> "maxBuffer exceeded", command |-> command, stream |-> "stdout"]

StderrOverflowError(command) ==
  [k |-> "maxBuffer exceeded", command |-> command, stream |-> "stderr"]

\* variant: the error handler reports a plain failure of the command
StartErrorAsFailure(command) == [k |-> "failed", command |-> command]

StartError(command) == [k |-> "Failed to start", command |-> command]

\* variant: the close handler reports the exit code and ignores the signal
CloseErrorExitOnly(command, code, signal, stderr) ==
  [k |-> "failed", command |-> command,
   reason |-> [kind |-> "exit code", code |-> code, signal |-> ""],
   stderr |-> stderr]

\* variant: the close handler leaves the captured stderr out of the message
CloseErrorNoStderr(command, code, signal, stderr) ==
  [k |-> "failed", command |-> command,
   reason |-> IF signal # "" THEN [kind |-> "killed by", code |-> 0, signal |-> signal]
              ELSE [kind |-> "exit code", code |-> code, signal |-> ""],
   stderr |-> <<>>]

\* new Error(details) of the close handler; signal "" stands for null
CloseError(command, code, signal, stderr) ==
  [k |-> "failed", command |-> command,
   reason |-> IF signal # "" THEN [kind |-> "killed by", code |-> 0, signal |-> signal]
              ELSE [kind |-> "exit code", code |-> code, signal |-> ""],
   stderr |-> stderr]

\* variant: the output is stdout alone, with no fallback to stderr
ResultStdoutOnly(r) ==
  [output |-> TrimEnd(r.stdout),
   stdoutBytes |-> r.stdoutLen, stderrBytes |-> r.stderrLen]

\* the value the promise resolves with
Result(r) ==
  [output |-> TrimEnd(IF Truthy(r.stdout) THEN r.stdout ELSE r.stderr),
   stdoutBytes |-> r.stdoutLen, stderrBytes |-> r.stderrLen]

Overflows(len) == len > MAX_BUFFER_BYTES

\* variant: child.kill("SIGKILL"), which signals the child alone
KillChildOnly(r, ld, ds) ==
  IF r.child # "ok" THEN [leader |-> ld, desc |-> ds]
  ELSE [leader |-> IF ld.st = "running"
                   THEN [st |-> "signaled", code |-> 0, sig |-> "SIGKILL"] ELSE ld,
        desc |-> ds]

\* process.kill(-child.pid, "SIGKILL") inside try/catch: every live process of
\* the child's group dies; with no pid (spawn failed) the call throws and is caught
KillGroup(r, ld, ds) ==
  IF r.child # "ok" THEN [leader |-> ld, desc |-> ds]
  ELSE [leader |-> IF ld.st = "running"
                   THEN [st |-> "signaled", code |-> 0, sig |-> "SIGKILL"] ELSE ld,
        desc |-> [d \in Desc |->
                    IF ds[d].st = "alive" /\ ds[d].inGroup
                    THEN [ds[d] EXCEPT !.st = "killed", !.holdsPipe = FALSE]
                    ELSE ds[d]]]

\* ----------------------------------------------------------------- handler
\* variant: ping is answered only when the call carries no argument
IsPingNoArguments(r) ==
  r.name = "ping" /\ \A key \in ArgKeys : RawArg(r, key).t = "undefined"

\* params.name === "ping"
IsPing(r) == r.name = "ping"

\* variant: the prompt is tested without trimming
PromptEmpty(p) == ~Truthy(p)

PromptBlank(p) == ~Truthy(Trim(p))

ResolveTimeout(raw, eff) == IF IsInteger(raw) THEN raw.v ELSE eff

\* variant: every attempt gets the whole timeout
RemainingMsReset(timeout, elapsedMs) == timeout

\* remainingMs = timeoutMs - elapsedMs
RemainingMs(timeout, elapsedMs) == timeout - elapsedMs

\* variant: runCli is called without await and the loop goes on
NotAwaited == "loop"

\* the handler's position after calling runCli: suspended at the await
Awaited == "await"

\* variant: a budget of exactly 0 still launches
BudgetNegative(remainingMs) == remainingMs < 0

BudgetExhausted(remainingMs) == remainingMs <= 0

\* variant: a flagged result is returned only when it has text
IsErrorWithText(normalized) == normalized.isError /\ Truthy(Trim(normalized.text))

\* if (normalized.isError)
IsError(normalized) == normalized.isError

\* the error payload returned when normalized.isError
ErrorPayload(prov, normalized) ==
  Failure(IF Truthy(Trim(normalized.text)) THEN Text(Trim(normalized.text))
          ELSE Msg("returned is_error=true", Command(prov)))

\* variant: the text is tested without trimming
HasTextUntrimmed(normalized) == Truthy(normalized.text)

\* variant: no text is taken as usable, so the loop goes on to the next attempt
HasTextNever(normalized) == FALSE

HasText(normalized) == Truthy(Trim(normalized.text))

EmptyTwiceMsg == "returned empty output twice (exit 0); treated as failure"
EmptyMsg == "returned empty output (exit 0); treated as failure"
BudgetMsg == "failed: timeout budget exhausted before retry"

\* the response after the retry loop has ended without a return
AfterLoop(prov, lr, ln) ==
  IF lr /\ ~Truthy(Trim(ln.text))
  THEN Failure(IF prov = "claude"
               THEN Msg(EmptyTwiceMsg, "claude")
               ELSE Msg(EmptyMsg, Command(prov)))
  ELSE Failure(Msg(BudgetMsg, Command(prov)))

\* variant: the catch block forgets isError
CatchErrorNoFlag(err) == Success(err)

\* catch (err): the response carries err.message
CatchError(err) == Failure(err)

Return(resp) ==
  /\ pc' = "returned"
  /\ response' = resp
  /\ respCount' = respCount + 1

\* variant: the try/catch sits inside the loop, so a failed attempt is retried
ResumeRetriesFailure(outcome) ==
  IF outcome.k = "rejected"
  THEN /\ pc' = "loop"
       /\ attempt' = attempt + 1
       /\ wrote' = {logErr("catch: err.message")}
       /\ UNCHANGED <<response, respCount, lastResult, lastNormalized, blankExits,
                      blankNorm>>
  ELSE LET normalized == normalizeToolOutput(provider, outcome.result.output) IN
       /\ lastResult' = TRUE
       /\ lastNormalized' = normalized
       /\ blankExits' = blankExits + (IF Trim(outcome.result.output) = <<>> THEN 1 ELSE 0)
       /\ blankNorm' = blankNorm + (IF Trim(normalized.text) = <<>> THEN 1 ELSE 0)
       /\ IF IsError(normalized)
          THEN /\ Return(ErrorPayload(provider, normalized)) /\ attempt' = attempt
               /\ wrote' = {logErr("tools/call: provider returned error payload")}
          ELSE IF HasText(normalized)
          THEN /\ Return(Success(Text(normalized.text))) /\ attempt' = attempt
               /\ wrote' = {logErr("tools/call: done")}
          ELSE /\ pc' = "loop"
               /\ attempt' = attempt + 1
               /\ wrote' = IF attempt < MaxAttempts(provider)
                           THEN {logErr("tools/call: empty output; retrying")}
                           ELSE wrote
               /\ UNCHANGED <<response, respCount>>

\* the handler resumes after `await runCli(...)` with the promise's outcome
Resume(outcome) ==
  IF outcome.k = "rejected"
  THEN /\ Return(CatchError(outcome.err))
       /\ wrote' = {logErr("catch: err.message")}
       /\ UNCHANGED <<attempt, lastResult, lastNormalized, blankExits, blankNorm>>
  ELSE LET normalized == normalizeToolOutput(provider, outcome.result.output) IN
       /\ lastResult' = TRUE
       /\ lastNormalized' = normalized
       /\ blankExits' = blankExits + (IF Trim(outcome.result.output) = <<>> THEN 1 ELSE 0)
       /\ blankNorm' = blankNorm + (IF Trim(normalized.text) = <<>> THEN 1 ELSE 0)
       /\ IF IsError(normalized)
          THEN /\ Return(ErrorPayload(provider, normalized)) /\ attempt' = attempt
               /\ wrote' = {logErr("tools/call: provider returned error payload")}
          ELSE IF HasText(normalized)
          THEN /\ Return(Success(Text(normalized.text))) /\ attempt' = attempt
               /\ wrote' = {logErr("tools/call: done")}
          ELSE /\ pc' = "loop"
               /\ attempt' = attempt + 1
               /\ wrote' = IF attempt < MaxAttempts(provider)
                           THEN {logErr("tools/call: empty output; retrying")}
                           ELSE wrote
               /\ UNCHANGED <<response, respCount>>

\* variant: done has no `if (settled) return`, so a later event settles again
DoneOverwrites(r, err) ==
  LET outcome == IF err = NoError
                 THEN [k |-> "resolved", result |-> Result(r)]
                 ELSE [k |-> "rejected", err |-> err] IN
  IF r.settled
  THEN /\ run' = [r EXCEPT !.timer = FALSE, !.outcome = outcome]
       /\ UNCHANGED <<pc, response, respCount, attempt, lastResult, lastNormalized,
                      blankExits, blankNorm, wrote>>
  ELSE /\ run' = [r EXCEPT !.timer = FALSE, !.settled = TRUE, !.outcome = outcome]
       /\ Resume(outcome)

\* done(err) applied to the closure r
Done(r, err) ==
  IF r.settled
  THEN /\ run' = [r EXCEPT !.timer = FALSE]
       /\ UNCHANGED <<pc, response, respCount, attempt, lastResult, lastNormalized,
                      blankExits, blankNorm, wrote>>
  ELSE LET outcome == IF err = NoError
                      THEN [k |-> "resolved", result |-> Result(r)]
                      ELSE [k |-> "rejected", err |-> err] IN
       /\ run' = [r EXCEPT !.timer = FALSE, !.settled = TRUE, !.outcome = outcome]
       /\ Resume(outcome)


\* the log line written when the call carries unsupported keys
IgnoredLog(keys) ==
  IF keys # {} THEN {logErr("tools/call: ignoring unsupported args")} ELSE {}

\* variant: the handler stores the call's sandbox argument as the new default
SandboxDefaultStored(default, r) == IF IsTrue(r.sandbox) THEN TRUE ELSE default

\* the handler reads backend.extraProperties[key].default and never assigns it
SandboxDefaultAfterCall(default, r) == default

\* ----------------------------------------------------------------- actions
\* tools/call arrives: the handler runs up to the start of the retry loop
CallTool(r) ==
  /\ server.st = "serving" /\ server.stdin = "open" /\ server.transport = "open"
  /\ pc = "idle"
  /\ req' = r
  /\ prompt' = toStringArg(r.prompt)
  /\ timeoutMs' = ResolveTimeout(r.timeout_ms, effectiveTimeout)
  /\ startedAt' = now
  /\ IF IsPing(r)
     THEN /\ Return(Success(Text(<<"pong">>))) /\ attempt' = 0
          /\ UNCHANGED <<cliArgs, ignoredArgKeys, wrote>>
     ELSE IF r.name # ToolName(provider)
     THEN /\ Return(Failure(Msg("Unknown tool", r.name))) /\ attempt' = 0
          /\ UNCHANGED <<cliArgs, ignoredArgKeys, wrote>>
     ELSE IF PromptBlank(toStringArg(r.prompt))
     THEN /\ Return(Failure(Msg("Missing required argument", "prompt"))) /\ attempt' = 0
          /\ ignoredArgKeys' = IgnoredArgKeys(provider, r)
          /\ wrote' = IF IgnoredArgKeys(provider, r) # {}
                      THEN IgnoredLog(IgnoredArgKeys(provider, r)) ELSE wrote
          /\ UNCHANGED cliArgs
     ELSE /\ pc' = "loop" /\ attempt' = 1 /\ UNCHANGED <<response, respCount>>
          /\ ignoredArgKeys' = IgnoredArgKeys(provider, r)
          /\ cliArgs' = BuildArgs(provider, toStringArg(r.prompt),
                                  ExtraOpts(provider, r, sandbox))
          /\ wrote' = IgnoredLog(IgnoredArgKeys(provider, r))
                        \cup {logErr("tools/call: running")}
  /\ sandbox' = SandboxDefaultAfterCall(sandbox, r)
  /\ UNCHANGED <<other, codex, server, provider, effectiveTimeout, now, lastResult, lastNormalized, spawnCount, run,
                 leader, desc, orphans, histVars>>

\* head of one loop iteration: leave the loop, or call runCli, whose executor
\* spawns the child, ends stdin and arms the deadline timer
LoopHead(spawned) ==
  /\ pc = "loop"
  /\ LET remainingMs == RemainingMs(timeoutMs, now - startedAt) IN
     IF attempt > MaxAttempts(provider) \/ BudgetExhausted(remainingMs)
     THEN /\ Return(AfterLoop(provider, lastResult, lastNormalized))
          /\ loopExit' = IF attempt > MaxAttempts(provider) THEN "attempts" ELSE "budget"
          /\ wrote' = IF lastResult /\ ~Truthy(Trim(lastNormalized.text))
                      THEN {logErr("tools/call: empty output after retries")}
                      ELSE {logErr("tools/call: timeout budget exhausted")}
          /\ UNCHANGED <<spawnCount, orphans, run, leader, desc, attempt,
                         lastResult, lastNormalized>>
     ELSE /\ spawnCount' = spawnCount + 1
          /\ loopExit' = loopExit
          /\ orphans' = orphans + Cardinality(GroupAlive(leader, desc))
          /\ desc' = [d \in Desc |-> NoDesc]
          /\ IF spawned = "threw"
             THEN /\ run' = [NoRun EXCEPT !.outcome =
                                     [k |-> "rejected", err |-> [k |-> "spawn threw"]]]
                  /\ leader' = NoLeader
                  /\ Return(CatchError([k |-> "spawn threw"]))
                  /\ wrote' = {logErr("catch: err.message")}
                  /\ UNCHANGED <<attempt, lastResult, lastNormalized>>
             ELSE /\ run' = [NoRun EXCEPT
                               !.child = spawned,
                               !.args = cliArgs,
                               !.stdin = [data |-> IF StdinPrompt(provider) THEN prompt ELSE <<>>,
                                          ended |-> TRUE],
                               !.timer = TRUE, !.t0 = now, !.budget = remainingMs]
                  /\ leader' = IF spawned = "ok"
                               THEN [st |-> "running", code |-> 0, sig |-> ""]
                               ELSE NoLeader
                  /\ pc' = Awaited
                  /\ UNCHANGED <<response, respCount, attempt, lastResult, lastNormalized,
                                 wrote>>
  /\ UNCHANGED <<other, codex, server, configVars, now, callVars, timedOut,
                 blankExits, blankNorm>>

\* child.stdout.on("data")
StdoutData(tok) ==
  /\ run.child = "ok" /\ ~run.closed /\ run.chunks < MaxChunks
  /\ LET r1 == [run EXCEPT !.stdoutLen = @ + TokBytes(tok), !.chunks = @ + 1] IN
     IF Overflows(r1.stdoutLen)
     THEN LET k == KillGroup(r1, leader, desc) IN
          /\ leader' = k.leader /\ desc' = k.desc
          /\ Done(r1, StdoutOverflowError(Command(provider)))
     ELSE /\ run' = [r1 EXCEPT !.stdout = Append(@, tok)]
          /\ UNCHANGED <<leader, desc, pc, response, respCount, attempt,
                         lastResult, lastNormalized, blankExits, blankNorm, wrote>>
  /\ UNCHANGED <<other, codex, server, configVars, now, callVars, spawnCount,
                 orphans, timedOut, loopExit>>

\* child.stderr.on("data")
StderrData(tok) ==
  /\ run.child = "ok" /\ ~run.closed /\ run.chunks < MaxChunks
  /\ LET r1 == [run EXCEPT !.stderrLen = @ + TokBytes(tok), !.chunks = @ + 1] IN
     IF Overflows(r1.stderrLen)
     THEN LET k == KillGroup(r1, leader, desc) IN
          /\ leader' = k.leader /\ desc' = k.desc
          /\ Done(r1, StderrOverflowError(Command(provider)))
     ELSE /\ run' = [r1 EXCEPT !.stderr = Append(@, tok)]
          /\ UNCHANGED <<leader, desc, pc, response, respCount, attempt,
                         lastResult, lastNormalized, blankExits, blankNorm, wrote>>
  /\ UNCHANGED <<other, codex, server, configVars, now, callVars, spawnCount,
                 orphans, timedOut, loopExit>>

\* the deadline timer's callback
TimerFire ==
  /\ run.timer
  /\ now - run.t0 >= run.budget
  /\ LET k == KillGroup(run, leader, desc) IN
     /\ leader' = k.leader
     /\ desc' = k.desc
  /\ run' = [run EXCEPT !.timer = FALSE, !.timerFired = TRUE]
  /\ timedOut' = (timedOut \/ leader.st = "running")
  /\ UNCHANGED <<other, codex, server, wrote, configVars, now, handlerVars, spawnCount, orphans, loopExit,
                 blankExits, blankNorm>>

\* child.on("error"): the command could not be started
ErrorEvent ==
  /\ run.child = "failed" /\ ~run.errored
  /\ Done([run EXCEPT !.errored = TRUE], StartError(Command(provider)))
  /\ UNCHANGED <<other, codex, server, configVars, now, callVars, spawnCount,
                 leader, desc, orphans, timedOut, loopExit>>

\* child.on("close"): the child has ended and both output pipes are at end of
\* file; after a failed spawn Node emits it behind 'error', with the negative
\* errno (-2, ENOENT) as code
CloseEvent ==
  /\ ~run.closed
  /\ IF run.child = "ok"
     THEN leader.st \in {"exited", "signaled"} /\ PipeHolders(leader, desc) = {}
     ELSE run.child = "failed" /\ run.errored
  /\ LET r1 == [run EXCEPT !.closed = TRUE]
         code == IF run.child = "ok" THEN leader.code ELSE -2 IN
     IF leader.sig # "" \/ code # 0
     THEN Done(r1, CloseError(Command(provider), code, leader.sig, run.stderr))
     ELSE Done(r1, NoError)
  /\ UNCHANGED <<other, codex, server, configVars, now, callVars, spawnCount,
                 leader, desc, orphans, timedOut, loopExit>>

\* the returned response goes to the client; the call's locals are dropped and
\* the server waits for the next request
SendResponse ==
  /\ pc = "returned"
  /\ pc' = "idle"
  /\ req' = NoRequest
  /\ prompt' = <<>>
  /\ timeoutMs' = 0
  /\ startedAt' = 0
  /\ attempt' = 0
  /\ lastResult' = FALSE
  /\ lastNormalized' = NoNormalized
  /\ response' = NoResponse
  /\ respCount' = 0
  /\ spawnCount' = 0
  /\ now' = 0
  /\ run' = NoRun
  /\ leader' = NoLeader
  /\ desc' = [d \in Desc |-> NoDesc]
  /\ orphans' = 0
  /\ timedOut' = FALSE
  /\ loopExit' = ""
  /\ blankExits' = 0
  /\ blankNorm' = 0
  /\ cliArgs' = <<>>
  /\ ignoredArgKeys' = {}
  /\ wrote' = {Send("response")}
  /\ UNCHANGED <<other, codex, server, configVars>>

\* Date.now() advances
Tick ==
  /\ pc = "loop" \/ run.timer
  /\ now < MaxTime
  /\ now' = now + 1
  /\ UNCHANGED <<other, codex, server, wrote, configVars, handlerVars, spawnCount, run, leader,
                 desc, orphans, histVars>>

\* ------------------------------------------- the spawned process group (OS)
ExitCodes == {0, 1}
ExternalSignals == {"SIGTERM"}

osFrame == <<other, codex, server, wrote, configVars, now, handlerVars, spawnCount, run, orphans, histVars>>

\* the child exits by itself
LeaderExit(code) ==
  /\ leader.st = "running"
  /\ leader' = [st |-> "exited", code |-> code, sig |-> ""]
  /\ UNCHANGED <<osFrame, desc>>

\* the child is killed by a signal from outside the server
LeaderSignaled(sig) ==
  /\ leader.st = "running"
  /\ leader' = [st |-> "signaled", code |-> 0, sig |-> sig]
  /\ UNCHANGED <<osFrame, desc>>

\* a live process of the subtree forks: the new process inherits its parent's
\* process group and open pipes (parent 0 is the child itself)
Fork(d, parent) ==
  /\ desc[d].st = "none"
  /\ \A e \in Desc : e < d => desc[e].st # "none"
  /\ \/ /\ parent = 0 /\ leader.st = "running"
        /\ desc' = [desc EXCEPT ![d] = [st |-> "alive", inGroup |-> TRUE, holdsPipe |-> TRUE]]
     \/ /\ parent \in Desc /\ desc[parent].st = "alive"
        /\ desc' = [desc EXCEPT ![d] = desc[parent]]
  /\ UNCHANGED <<osFrame, leader>>

\* a descendant leaves the child's process group (setsid, setpgid)
Detach(d) ==
  /\ desc[d].st = "alive" /\ desc[d].inGroup
  /\ desc' = [desc EXCEPT ![d].inGroup = FALSE]
  /\ UNCHANGED <<osFrame, leader>>

\* a descendant closes or redirects its inherited stdout and stderr
ClosePipes(d) ==
  /\ desc[d].st = "alive" /\ desc[d].holdsPipe
  /\ desc' = [desc EXCEPT ![d].holdsPipe = FALSE]
  /\ UNCHANGED <<osFrame, leader>>

\* a descendant exits by itself
DescExit(d) ==
  /\ desc[d].st = "alive"
  /\ desc' = [desc EXCEPT ![d] = [st |-> "exited", inGroup |-> FALSE, holdsPipe |-> FALSE]]
  /\ UNCHANGED <<osFrame, leader>>

StdoutChunks == {WS, BIG, J_ERR_BLANK, J_BLANK}
StderrChunks == {BIG}

Next ==
  \/ \E r \in Requests : CallTool(r)
  \/ \E spawned \in {"ok", "failed", "threw"} : LoopHead(spawned)
  \/ \E tok \in StdoutChunks : StdoutData(tok)
  \/ \E tok \in StderrChunks : StderrData(tok)
  \/ TimerFire
  \/ ErrorEvent
  \/ CloseEvent
  \/ SendResponse
  \/ Tick
  \/ \E code \in ExitCodes : LeaderExit(code)
  \/ \E sig \in ExternalSignals : LeaderSignaled(sig)
  \/ \E d \in Desc, parent \in {0} \cup Desc : Fork(d, parent)
  \/ \E d \in Desc : Detach(d)
  \/ \E d \in Desc : ClosePipes(d)
  \/ \E d \in Desc : DescExit(d)

Spec == Init /\ [][Next]_vars

\* ------------------------------------------------- the child's output varied
\* One plain call per tool; the child writes any of the texts below, forks
\* nothing, and exits by itself before the deadline.
OutputRequests ==
  [name : {"claude_code", "gemini"}, prompt : {Str(<<TXT>>)}, timeout_ms : {Undefined},
   sandbox : {Undefined}, model : {Undefined}]
OutputStdoutChunks == JsonTokens \cup {WS, TXT}
OutputStderrChunks == {TXT, J_ERR}

NextOutput ==
  \/ \E r \in OutputRequests : CallTool(r)
  \/ LoopHead("ok")
  \/ \E tok \in OutputStdoutChunks : StdoutData(tok)
  \/ \E tok \in OutputStderrChunks : StderrData(tok)
  \/ \E code \in ExitCodes : LeaderExit(code)
  \/ CloseEvent
  \/ SendResponse

SpecOutput == Init /\ [][NextOutput]_vars

\* ------------------------------------------ the request and the flags varied
\* The server is started with any of --timeout and --sandbox; a call carries
\* any of the argument values below; the child writes nothing and exits 0 or
\* is killed by the deadline timer.
CallTimeouts == {DEFAULT_TIMEOUT_MS, 1}
CallRequests ==
  [name : ToolNames,
   prompt : {Undefined, Str(<<WS>>), Str(<<TXT>>)},
   timeout_ms : {Undefined, Null, Num(-1), Num(0), Num(1), Half(1), Str(<<"1">>)},
   sandbox : {Undefined, Null, Bool(TRUE), Bool(FALSE), Str(<<"true">>)},
   model : {Undefined, Str(<<"m">>)}]

InitCall ==
  /\ provider \in Providers
  /\ effectiveTimeout \in CallTimeouts
  /\ sandbox \in BOOLEAN
  /\ ServerIdle
  /\ codex = NoCodex
  /\ server = Serving(provider)
  /\ wrote = {logErr(ReadyLog)}

NextCall ==
  \/ \E r \in CallRequests : CallTool(r)
  \/ LoopHead("ok")
  \/ LeaderExit(0)
  \/ CloseEvent
  \/ TimerFire
  \/ Tick
  \/ SendResponse

SpecCall == InitCall /\ [][NextCall]_vars

\* ------------------------------------------------- two calls in flight
\* The handler is async: a second tools/call can arrive while the first waits
\* on its child.  Node runs one callback at a time, and each callback works on
\* the locals of the invocation it belongs to.

\* variant: lastResult and lastNormalized are declared at module level
LoopShared(saved, live) == live

\* let lastResult, let lastNormalized: declared inside the handler, so each
\* invocation has its own
LoopLocal(saved, live) == saved

\* the event loop turns to a callback of the other invocation
Switch ==
  /\ server.st = "serving"
  /\ other' = [id |-> 3 - other.id, locals |-> Locals]
  /\ pc' = other.locals.pc
  /\ req' = other.locals.req
  /\ prompt' = other.locals.prompt
  /\ timeoutMs' = other.locals.timeoutMs
  /\ startedAt' = other.locals.startedAt
  /\ cliArgs' = other.locals.cliArgs
  /\ ignoredArgKeys' = other.locals.ignoredArgKeys
  /\ attempt' = other.locals.attempt
  /\ lastResult' = LoopLocal(other.locals.lastResult, lastResult)
  /\ lastNormalized' = LoopLocal(other.locals.lastNormalized, lastNormalized)
  /\ response' = other.locals.response
  /\ respCount' = other.locals.respCount
  /\ spawnCount' = other.locals.spawnCount
  /\ run' = other.locals.run
  /\ leader' = other.locals.leader
  /\ desc' = other.locals.desc
  /\ orphans' = other.locals.orphans
  /\ timedOut' = other.locals.timedOut
  /\ loopExit' = other.locals.loopExit
  /\ blankExits' = other.locals.blankExits
  /\ blankNorm' = other.locals.blankNorm
  /\ UNCHANGED <<configVars, now, codex, server, wrote>>

PairRequests ==
  [name : {"claude_code", "gemini"}, prompt : {Str(<<TXT>>)},
   timeout_ms : {Undefined, Num(1)}, sandbox : {Undefined}, model : {Undefined}]

NextPair ==
  \/ \E r \in PairRequests : CallTool(r)
  \/ LoopHead("ok")
  \/ StdoutData(J_OK)
  \/ \E code \in ExitCodes : LeaderExit(code)
  \/ TimerFire
  \/ CloseEvent
  \/ Tick
  \/ Switch

SpecPair == Init /\ [][NextPair]_vars

\* ------------------------------------------------------- a call under fairness
\* One call with a deadline the clock can reach.  What Node and the kernel
\* guarantee is fair: the handler goes on when it can, time passes, a due timer
\* fires, and 'error' and 'close' are delivered once their conditions hold.
\* What the subprocess does (exit, write, fork, leave the group) is its choice.
NextLive ==
  \/ \E r \in {x \in PairRequests : x.timeout_ms = Num(1)} : CallTool(r)
  \/ \E spawned \in {"ok", "failed"} : LoopHead(spawned)
  \/ StdoutData(BIG)
  \/ TimerFire
  \/ ErrorEvent
  \/ CloseEvent
  \/ Tick
  \/ LeaderExit(0)
  \/ \E d \in Desc, parent \in {0} \cup Desc : Fork(d, parent)
  \/ \E d \in Desc : Detach(d)

SpecLive ==
  /\ Init /\ [][NextLive]_vars
  /\ WF_vars(\E spawned \in {"ok", "failed"} : LoopHead(spawned))
  /\ WF_vars(Tick) /\ WF_vars(TimerFire)
  /\ WF_vars(ErrorEvent) /\ WF_vars(CloseEvent)

\* ------------------------------------------------------- pass-through mode
\* --provider codex (the default): main calls runCodexPassthrough and returns;
\* no server is created.  The host is this process, the child is codex.
serverVars == <<other, server, configVars, now, handlerVars, spawnCount, run, leader, desc,
                orphans, histVars>>

ForwardedSignals == {"SIGTERM", "SIGINT", "SIGHUP"}

\* SIGNAL_CODES[sig]
SIGNAL_CODES(sig) ==
  CASE sig = "SIGHUP" -> 1
    [] sig = "SIGINT" -> 2
    [] sig = "SIGTERM" -> 15

\* `key=value` as one element of the argument list
KeyValue(key, value) == <<key, "=">> \o value

\* variant: the two fixed overrides are left out
PassthroughArgsNoOverrides(model, modelReasoningEffort) ==
  << Arg("mcp-server"),
     Arg("-c"), KeyValue("model", IF TruthyValue(model) THEN model.v
                                  ELSE <<"gpt-5.3-codex">>),
     Arg("-c"), KeyValue("model_reasoning_effort",
                         IF TruthyValue(modelReasoningEffort) THEN modelReasoningEffort.v
                         ELSE <<"high">>) >>

\* const args of runCodexPassthrough
PassthroughArgs(model, modelReasoningEffort) ==
  << Arg("mcp-server"),
     Arg("-c"), KeyValue("model", IF TruthyValue(model) THEN model.v
                                  ELSE <<"gpt-5.3-codex">>),
     Arg("-c"), KeyValue("sandbox_mode", <<"read-only">>),
     Arg("-c"), KeyValue("approval_policy", <<"never">>),
     Arg("-c"), KeyValue("model_reasoning_effort",
                         IF TruthyValue(modelReasoningEffort) THEN modelReasoningEffort.v
                         ELSE <<"high">>) >>

\* values of --model and --model_reasoning_effort: not given, empty, a plain
\* value, and a value that spells an override of its own
FlagValues ==
  {Undefined, Str(<<>>), Str(<<"x">>), Str(<<"x", " ", "sandbox_mode", "=", "danger-full-access">>)}

\* process.once: the listener is removed when it runs
ListenersAfter(listeners, sig) == listeners \ {sig}

\* the state right after runCodexPassthrough has returned
StartCodex(model, modelReasoningEffort, spawned) ==
  [ model |-> model,
    modelReasoningEffort |-> modelReasoningEffort,
    args |-> PassthroughArgs(model, modelReasoningEffort),
    child |-> IF spawned = "ok" THEN [st |-> "running", code |-> 0, sig |-> ""]
              ELSE [st |-> "failed", code |-> 0, sig |-> ""],
    pending |-> {},            \* signals sent to the child it has not acted on
    host |-> [st |-> "running", status |-> 0, sig |-> ""],
    exitCode |-> -1,           \* process.exitCode; -1 stands for not set
    listeners |-> ForwardedSignals,
    timers |-> <<>>,           \* armed grace timers, in arming order
    timerFired |-> "",         \* the signal whose grace timer ran
    handled |-> FALSE,         \* the child's exit or error event has been handled
    received |-> <<>>,         \* history: signals received by the host
    receivedRunning |-> <<>>,  \* history: those received while the child was running
    forwarded |-> <<>> ]       \* history: child.kill(sig) calls on a running child

InitPassthrough ==
  /\ provider = "codex"
  /\ effectiveTimeout = DEFAULT_TIMEOUT_MS
  /\ sandbox = FALSE
  /\ ServerIdle
  /\ \E model \in FlagValues, modelReasoningEffort \in FlagValues,
        spawned \in {"ok", "failed"} :
       codex = StartCodex(model, modelReasoningEffort, spawned)
  /\ server = Passthrough
  /\ wrote = {logErr(PassthroughLog)}

\* the host receives sig: the listener installed by process.once runs, or,
\* when no listener is left, the signal's default action ends the host
HostSignal(sig) ==
  /\ codex.host.st = "running"
  /\ Len(codex.received) < MaxSignals
  /\ LET running == codex.child.st = "running"
         c1 == [codex EXCEPT
                  !.received = Append(@, sig),
                  !.receivedRunning = IF running THEN Append(@, sig) ELSE @] IN
     IF sig \in codex.listeners
     THEN codex' = [c1 EXCEPT
                      !.listeners = ListenersAfter(@, sig),
                      !.pending = IF running THEN @ \cup {sig} ELSE @,
                      !.forwarded = IF running THEN Append(@, sig) ELSE @,
                      !.timers = Append(@, sig)]
     ELSE codex' = [c1 EXCEPT !.host = [st |-> "signaled", status |-> 0, sig |-> sig]]
  /\ UNCHANGED <<serverVars, wrote>>

\* the grace timer armed first runs: child.kill("SIGKILL"), process.exit
GraceTimerFire ==
  /\ codex.host.st = "running"
  /\ codex.timers # <<>>
  /\ LET sig == Head(codex.timers) IN
     codex' = [codex EXCEPT
                 !.timers = Tail(@),
                 !.timerFired = sig,
                 !.child = IF @.st = "running"
                           THEN [st |-> "signaled", code |-> 0, sig |-> "SIGKILL"] ELSE @,
                 !.pending = {},
                 !.host = [st |-> "exited", status |-> 128 + SIGNAL_CODES(sig), sig |-> ""]]
  /\ UNCHANGED <<serverVars, wrote>>

\* child.on("error"): codex could not be started
CodexErrorEvent ==
  /\ codex.host.st = "running"
  /\ codex.child.st = "failed" /\ ~codex.handled
  /\ codex' = [codex EXCEPT !.handled = TRUE, !.exitCode = 1]
  /\ wrote' = {logErr("[mcp-agents] failed to start codex")}
  /\ UNCHANGED serverVars

\* child.on("exit")
CodexExitEvent ==
  /\ codex.host.st = "running"
  /\ codex.child.st \in {"exited", "signaled"} /\ ~codex.handled
  /\ codex' = [codex EXCEPT
                 !.handled = TRUE,
                 !.exitCode = IF codex.child.sig # ""
                              THEN 128 + (IF codex.child.sig \in ForwardedSignals
                                          THEN SIGNAL_CODES(codex.child.sig) ELSE 0)
                              ELSE codex.child.code]
  /\ wrote' = IF codex.child.sig # "" THEN {logErr("[mcp-agents] codex killed by")}
              ELSE IF codex.child.code # 0 THEN {logErr("[mcp-agents] codex exited with code")}
              ELSE wrote
  /\ UNCHANGED serverVars

\* nothing keeps the event loop alive (the grace timers are unref'd): the host
\* exits with process.exitCode
HostExit ==
  /\ codex.host.st = "running"
  /\ codex.handled
  /\ codex' = [codex EXCEPT
                 !.host = [st |-> "exited",
                           status |-> IF codex.exitCode = -1 THEN 0 ELSE codex.exitCode,
                           sig |-> ""]]
  /\ UNCHANGED <<serverVars, wrote>>

\* codex exits by itself
CodexExit(code) ==
  /\ codex.child.st = "running"
  /\ codex' = [codex EXCEPT !.child = [st |-> "exited", code |-> code, sig |-> ""],
                            !.pending = {}]
  /\ UNCHANGED <<serverVars, wrote>>

\* codex dies of a signal that was sent to it
CodexDiesOf(sig) ==
  /\ codex.child.st = "running"
  /\ sig \in codex.pending
  /\ codex' = [codex EXCEPT !.child = [st |-> "signaled", code |-> 0, sig |-> sig],
                            !.pending = {}]
  /\ UNCHANGED <<serverVars, wrote>>

\* signals that end codex and are not sent by the host
ExternalKills == {"SIGKILL", "SIGSEGV"}

\* codex is killed from outside: by the kernel, or by a fault of its own
CodexKilled(sig) ==
  /\ codex.child.st = "running"
  /\ codex' = [codex EXCEPT !.child = [st |-> "signaled", code |-> 0, sig |-> sig],
                            !.pending = {}]
  /\ UNCHANGED <<serverVars, wrote>>

\* child.stderr.on("data"): the chunk is relayed with the tag [codex]
CodexStderrData ==
  /\ codex.host.st = "running"
  /\ codex.child.st = "running"
  /\ wrote' = {logErr("[codex] chunk")}
  /\ UNCHANGED <<serverVars, codex>>

\* stdio[1] is "inherit": what codex writes to its stdout goes to the host's
\* stdout without passing through the host
CodexStdoutData ==
  /\ codex.host.st = "running"
  /\ codex.child.st = "running"
  /\ wrote' = {[fd |-> "stdout", text |-> "response"]}
  /\ UNCHANGED <<serverVars, codex>>

NextPassthrough ==
  \/ \E sig \in ForwardedSignals : HostSignal(sig)
  \/ GraceTimerFire
  \/ CodexErrorEvent
  \/ CodexExitEvent
  \/ HostExit
  \/ \E code \in ExitCodes : CodexExit(code)
  \/ \E sig \in ForwardedSignals : CodexDiesOf(sig)
  \/ \E sig \in ExternalKills : CodexKilled(sig)

SpecPassthrough == InitPassthrough /\ [][NextPassthrough]_vars

\* ------------------------------------------------------ the process as a whole
\* The process starts with its command-line arguments still to be parsed; main
\* parses them and ends the process, starts pass-through mode, or connects the
\* server.  The calls and the child's outputs are few; the events of the
\* process itself (stdin ends, the transport closes, a top-level handler runs,
\* the event loop empties) are all there.
ValueFlags == {"--provider", "--model", "--model_reasoning_effort", "--sandbox", "--timeout"}
HelpFlags == {"--help", "-h"}
VersionFlags == {"--version", "-v"}
ArgTokens ==
  ValueFlags \cup {"--help", "--version", "--bogus", "claude", "gemini", "true",
                   "0", "-5", "abc", "2"}
Argvs == UNION {[1..n -> ArgTokens] : n \in 0..MaxArgs}

\* Object.keys(CLI_BACKENDS)
Backends == {"codex", "claude", "gemini"}

NaN == [nan |-> TRUE, v |-> 0]

\* Number(s), in seconds
Number(s) ==
  CASE s = "0" -> [nan |-> FALSE, v |-> 0]
    [] s = "-5" -> [nan |-> FALSE, v |-> -5]
    [] s = "2" -> [nan |-> FALSE, v |-> 2]
    [] OTHER -> NaN

\* variant: secs < 0, which lets zero and NaN pass
Negative(secs) == ~secs.nan /\ secs.v < 0

\* !(secs > 0): every comparison with NaN is false
NotPositive(secs) == ~(~secs.nan /\ secs.v > 0)

\* process.stderr.write(text)
stderrWrite(text) == [fd |-> "stderr", text |-> text]

\* process.exit(status) inside parseArgs, after the writes w
ParseExit(status, w) ==
  [ exit |-> status, wrote |-> w, provider |-> "", model |-> Undefined,
    modelReasoningEffort |-> Undefined, sandbox |-> FALSE, defaultTimeoutMs |-> Undefined ]

\* the loop of parseArgs from index i on (1-based), o holding the locals
RECURSIVE parseFrom(_, _, _)
parseFrom(args, i, o) ==
  IF i > Len(args) THEN o
  ELSE IF args[i] \in HelpFlags THEN ParseExit(0, {consoleLog("help")})
  ELSE IF args[i] \in VersionFlags THEN ParseExit(0, {consoleLog("mcp-agents v")})
  ELSE IF args[i] \in ValueFlags
  THEN IF i + 1 > Len(args)
       THEN ParseExit(1, {stderrWrite("error: requires a value")})
       ELSE LET value == args[i + 1] IN
            CASE args[i] = "--provider" ->
                   parseFrom(args, i + 2, [o EXCEPT !.provider = value])
              [] args[i] = "--model" ->
                   parseFrom(args, i + 2, [o EXCEPT !.model = Str(<<value>>)])
              [] args[i] = "--model_reasoning_effort" ->
                   parseFrom(args, i + 2, [o EXCEPT !.modelReasoningEffort = Str(<<value>>)])
              [] args[i] = "--sandbox" ->
                   parseFrom(args, i + 2, [o EXCEPT !.sandbox = (value = "true")])
              [] args[i] = "--timeout" ->
                   IF NotPositive(Number(value))
                   THEN ParseExit(1, {stderrWrite("error: --timeout must be a positive number")})
                   ELSE parseFrom(args, i + 2,
                                  [o EXCEPT !.defaultTimeoutMs = Num(Number(value).v * 1000)])
  ELSE ParseExit(1, {stderrWrite("error: unknown option")})

parseArgs(args) ==
  parseFrom(args, 1,
            [ exit |-> -1, wrote |-> {}, provider |-> "codex", model |-> Undefined,
              modelReasoningEffort |-> Undefined, sandbox |-> FALSE,
              defaultTimeoutMs |-> Undefined ])

\* the process before main has run
Started(args) ==
  [Serving("") EXCEPT !.st = "start", !.argv = args, !.keepAlive = FALSE,
                      !.transport = "none"]

\* the process has ended with the given status
Exited(status) ==
  [server EXCEPT !.st = "exited", !.argv = <<>>, !.keepAlive = FALSE, !.status = status]

InitMain ==
  /\ provider = ""
  /\ effectiveTimeout = DEFAULT_TIMEOUT_MS
  /\ sandbox = FALSE
  /\ ServerIdle
  /\ codex = NoCodex
  /\ \E args \in Argvs : server = Started(args)
  /\ wrote = {}

\* main, up to its return
Main(spawned) ==
  /\ server.st = "start"
  /\ LET o == parseArgs(server.argv) IN
     IF o.exit # -1
     THEN /\ server' = Exited(o.exit)
          /\ wrote' = o.wrote
          /\ UNCHANGED <<configVars, codex>>
     ELSE IF o.provider \notin Backends
     THEN /\ server' = [Exited(1) EXCEPT !.exitCode = 1]
          /\ wrote' = {logErr("[mcp-agents] Unknown provider"), logErr("[mcp-agents] Available")}
          /\ UNCHANGED <<configVars, codex>>
     ELSE IF o.provider = "codex"
     THEN /\ provider' = "codex"
          /\ codex' = StartCodex(o.model, o.modelReasoningEffort, spawned)
          /\ server' = Passthrough
          /\ wrote' = {logErr(PassthroughLog)}
          /\ UNCHANGED <<effectiveTimeout, sandbox>>
     ELSE /\ provider' = o.provider
          /\ sandbox' = IF HasSandboxProperty(o.provider) THEN o.sandbox ELSE sandbox
          /\ effectiveTimeout' = IF Nullish(o.defaultTimeoutMs) THEN DEFAULT_TIMEOUT_MS
                                 ELSE o.defaultTimeoutMs.v
          /\ server' = [Serving(o.provider) EXCEPT
                          !.sandboxWrites = server.sandboxWrites
                                            + (IF HasSandboxProperty(o.provider) THEN 1 ELSE 0)]
          /\ wrote' = {logErr(ReadyLog)}
          /\ UNCHANGED codex
  /\ UNCHANGED <<other, now, handlerVars, spawnCount, run, leader, desc, orphans, histVars>>

\* the host's stdin reaches end of file; the SDK transport does not listen
\* for it
StdinEnd ==
  /\ server.st = "serving" /\ server.stdin = "open"
  /\ server' = [server EXCEPT !.stdin = "eof", !.eofAt = pc]
  /\ UNCHANGED <<other, configVars, codex, wrote, now, handlerVars, spawnCount, run, leader, desc,
                 orphans, histVars>>

\* transport.onclose as main has wrapped it: clearInterval(keepAlive)
TransportClose ==
  /\ server.st = "serving" /\ server.transport = "open"
  /\ server' = [server EXCEPT !.transport = "closed", !.keepAlive = FALSE]
  /\ UNCHANGED <<other, configVars, codex, wrote, now, handlerVars, spawnCount, run, leader, desc,
                 orphans, histVars>>

\* something keeps the event loop of the server alive: the interval, the
\* transport reading stdin, or a call being served (it runs, or it waits on a
\* child whose handles are open)
EventLoopAlive ==
  \/ server.keepAlive
  \/ server.stdin = "open" /\ server.transport = "open"
  \/ pc # "idle"

\* the event loop is empty: the process exits with process.exitCode
ServerExit ==
  /\ server.st = "serving"
  /\ ~EventLoopAlive
  /\ server' = Exited(IF server.exitCode = -1 THEN 0 ELSE server.exitCode)
  /\ UNCHANGED <<other, configVars, codex, wrote, now, handlerVars, spawnCount, run, leader, desc,
                 orphans, histVars>>

\* process.on("uncaughtException") and process.on("unhandledRejection"): the
\* handler logs and sets process.exitCode = 1
TopLevelHandler ==
  /\ ~server.faulted
  /\ \/ /\ server.st = "serving"
        /\ server' = [server EXCEPT !.faulted = TRUE, !.exitCode = 1]
        /\ UNCHANGED codex
     \/ /\ server.st = "passthrough" /\ codex.host.st = "running"
        /\ server' = [server EXCEPT !.faulted = TRUE]
        /\ codex' = [codex EXCEPT !.exitCode = 1]
  /\ wrote' = {logErr("[mcp-agents] uncaught exception")}
  /\ UNCHANGED <<other, configVars, now, handlerVars, spawnCount, run, leader, desc, orphans,
                 histVars>>

MainRequests ==
  [name : {"claude_code", "gemini"}, prompt : {Str(<<TXT>>)}, timeout_ms : {Undefined},
   sandbox : {Undefined, Bool(TRUE)}, model : {Undefined, Str(<<"m">>)}]
MainStdoutChunks == {J_OK, J_ERR}

NextMain ==
  \/ \E spawned \in {"ok", "failed"} : Main(spawned)
  \/ StdinEnd
  \/ TransportClose
  \/ ServerExit
  \/ TopLevelHandler
  \/ \E r \in MainRequests : CallTool(r)
  \/ LoopHead("ok")
  \/ \E tok \in MainStdoutChunks : StdoutData(tok)
  \/ \E code \in ExitCodes : LeaderExit(code)
  \/ CloseEvent
  \/ SendResponse
  \/ CodexStderrData
  \/ CodexStdoutData
  \/ CodexErrorEvent
  \/ \E code \in ExitCodes : CodexExit(code)
  \/ CodexExitEvent
  \/ HostExit

SpecMain == InitMain /\ [][NextMain]_vars


\* ================================================================== claims
Remaining == timeoutMs - (now - startedAt)

\* the prompt argument is missing, null, or a string of whitespace only
BlankPromptValue(v) ==
  \/ v.t \in {"undefined", "null"}
  \/ v.t = "string" /\ \A i \in 1..Len(v.v) : v.v[i] = WS

IsEmptyOutputError(resp) ==
  resp.isError /\ resp.text.k \in {EmptyTwiceMsg, EmptyMsg}

\* the messages of the program that name a timeout
MentionsTimeout(text) == text.k = BudgetMsg

BackendCall == req.name = ToolName(provider)

\* C1: once the deadline timer of an attempt has fired, no process of the
\* child's process group is alive (the child, when it was still running, died
\* of SIGKILL), and this stays so.
C1_TimeoutKillsGroup ==
  run.timerFired =>
    /\ GroupAlive(leader, desc) = {}
    /\ timedOut => (leader.st = "signaled" /\ leader.sig = "SIGKILL")

C1_Witness ==
  /\ run.timerFired /\ timedOut
  /\ \E d \in Desc : desc[d].st = "killed"

\* C2 (as claimed): when the response of a call has been returned, no process of
\* any process group spawned for the call is alive.
C2_NoProcessLeaked ==
  pc = "returned" => (GroupAlive(leader, desc) = {} /\ orphans = 0)

\* C3: a call to the backend tool whose prompt is missing, null or blank is
\* answered at once with the missing-prompt error and spawns nothing.
C3_BlankPromptRejected ==
  (BackendCall /\ BlankPromptValue(req.prompt)) =>
    /\ pc = "returned"
    /\ response = Failure(Msg("Missing required argument", "prompt"))
    /\ respCount = 1
    /\ spawnCount = 0

C3_Witness ==
  BackendCall /\ req.prompt = Str(<<WS>>) /\ pc = "returned"

\* C4: at the head of a loop iteration with remaining budget <= 0 nothing is
\* spawned; the handler leaves the loop and returns, and nothing is spawned
\* after the return.
C4_NoLaunchWithoutBudget ==
  [][ /\ (pc = "loop" /\ Remaining <= 0) =>
           (spawnCount' = spawnCount /\ pc' \in {"loop", "returned"})
      /\ (pc = "returned" /\ loopExit = "budget") =>
           (spawnCount' = spawnCount \/ pc' = "idle") ]_vars

C4_Witness ==
  pc = "returned" /\ loopExit = "budget" /\ attempt = 2 /\ spawnCount = 1

\* C5: claude backend: after two attempts that exited cleanly with output empty
\* after trimming, exactly two processes have been spawned, no third follows,
\* and the one response returned is an error.
C5_TwoBlankExitsTwoSpawns ==
  (provider = "claude" /\ blankExits >= 2) =>
    /\ spawnCount = 2
    /\ pc \in {"loop", "returned"}
    /\ pc = "returned" => (respCount = 1 /\ response.isError)

C5_Witness ==
  provider = "claude" /\ blankExits = 2 /\ pc = "returned"

\* C6 (as claimed): when the loop ends because the budget is exhausted before
\* an attempt could start, the response is the timeout-budget-exhausted error.
C6_BudgetStopIsTimeoutError ==
  (pc = "returned" /\ loopExit = "budget") =>
    response = Failure(Msg(BudgetMsg, Command(provider)))

\* C7: a rejected runCli promise always ends in a returned response with
\* isError = true whose text is the error's message.
C7_RunnerFailureBecomesErrorResponse ==
  run.outcome.k = "rejected" =>
    /\ pc = "returned"
    /\ respCount = 1
    /\ response.isError
    /\ response.text = run.outcome.err

C7_Witness ==
  /\ run.outcome.k = "rejected" /\ run.outcome.err.k = "failed"
  /\ run.outcome.err.reason.kind = "killed by"
  /\ pc = "returned"

\* C8: a stream whose byte count exceeds MAX_BUFFER_BYTES makes the call fail
\* with a maxBuffer error, the process group is dead, and a maxBuffer error
\* names a stream whose own count exceeds the limit.
C8_OverflowNamesItsStream ==
  /\ (Overflows(run.stdoutLen) \/ Overflows(run.stderrLen)) =>
       /\ run.outcome.k = "rejected"
       /\ run.outcome.err.k = "maxBuffer exceeded"
       /\ GroupAlive(leader, desc) = {}
       /\ pc = "returned"
       /\ response = Failure(run.outcome.err)
  /\ (run.outcome.k = "rejected" /\ run.outcome.err.k = "maxBuffer exceeded") =>
       \/ run.outcome.err.stream = "stdout" /\ Overflows(run.stdoutLen)
       \/ run.outcome.err.stream = "stderr" /\ Overflows(run.stderrLen)

C8_Witness ==
  /\ run.outcome.k = "rejected" /\ run.outcome.err.k = "maxBuffer exceeded"
  /\ run.outcome.err.stream = "stderr"
  /\ ~Overflows(run.stdoutLen)

\* C9 (as claimed): a call whose child was running when the deadline timer
\* fired returns an error that names a timeout, and the group is dead.
C9_TimeoutNamedInError ==
  (pc = "returned" /\ timedOut) =>
    /\ response.isError
    /\ MentionsTimeout(response.text)
    /\ GroupAlive(leader, desc) = {}

\* C9 (amended): such a call returns an error whose text is the close handler's
\* "failed: killed by SIGKILL" with the captured stderr, or a maxBuffer error
\* when output read after the kill overflows, and the group is dead.
C9_TimeoutReportedAsKill ==
  (pc = "returned" /\ timedOut) =>
    /\ response.isError
    /\ \/ response.text = [k |-> "failed", command |-> Command(provider),
                            reason |-> [kind |-> "killed by", code |-> 0, signal |-> "SIGKILL"],
                            stderr |-> run.stderr]
       \/ response.text.k = "maxBuffer exceeded"
    /\ GroupAlive(leader, desc) = {}

C9_Witness ==
  /\ pc = "returned" /\ timedOut
  /\ response.text.k = "failed"
  /\ \E d \in Desc : desc[d].st = "killed"

\* C10 (as claimed): a success response of the backend tool never has blank
\* text, and when every attempt exited cleanly with blank normalized text the
\* response is the empty-output error.
C10_BlankIsEmptyOutputError ==
  (pc = "returned" /\ BackendCall) =>
    /\ ~response.isError => (response.text.k = "text" /\ Trim(response.text.s) # <<>>)
    /\ (spawnCount >= 1 /\ blankNorm = spawnCount) => IsEmptyOutputError(response)

\* C10 (amended): the same, for attempts whose normalized result is not
\* flagged isError.
C10_BlankUnflaggedIsEmptyOutputError ==
  (pc = "returned" /\ BackendCall) =>
    /\ ~response.isError => (response.text.k = "text" /\ Trim(response.text.s) # <<>>)
    /\ (spawnCount >= 1 /\ blankNorm = spawnCount /\ ~lastNormalized.isError) =>
         IsEmptyOutputError(response)

C10_Witness ==
  /\ pc = "returned" /\ provider = "gemini"
  /\ blankNorm = 1 /\ spawnCount = 1
  /\ response = Failure(Msg(EmptyMsg, "gemini"))

\* the JSON documents that are an object with type "result" and is_error true
ErrorEnvelopes == {J_ERR, J_ERR_BLANK, J_NO_RESULT}

\* the output a resolved runCli promise carried
ResolvedOutput == run.outcome.result.output

\* C11: the normalized result of an attempt's output has isError = true exactly
\* when the provider is claude and the trimmed output is one JSON document that
\* is an object with type "result" and is_error true; for gemini, blank text,
\* text that is not JSON and JSON of any other shape it is false.
C11_IsErrorIffErrorEnvelope ==
  (run.settled /\ run.outcome.k = "resolved") =>
    /\ lastResult
    /\ lastNormalized = normalizeToolOutput(provider, ResolvedOutput)
    /\ lastNormalized.isError <=>
         (provider = "claude" /\ \E tok \in ErrorEnvelopes : Trim(ResolvedOutput) = <<tok>>)

C11_Witness ==
  /\ run.settled /\ run.outcome.k = "resolved"
  /\ ResolvedOutput = <<WS, J_NO_RESULT>>
  /\ lastNormalized.isError

\* text that is not blank and is not one JSON document
NonJson(text) == Trim(text) # <<>> /\ ~JsonParse(Trim(text)).ok

ValidTimeout(value) ==
  value.t = "number" /\ "half" \notin DOMAIN value /\ value.v >= 0

\* C13 (as claimed): the budget of a call to the backend tool is the request's
\* timeout_ms when that is a non-negative integer, and the startup default
\* otherwise.
C13_BudgetIsValidTimeoutOrDefault ==
  (BackendCall /\ pc # "idle") =>
    timeoutMs = IF ValidTimeout(req.timeout_ms) THEN req.timeout_ms.v
                ELSE effectiveTimeout

\* C14: the budget handed to an attempt is the call's timeout minus the time
\* elapsed since the handler started, so the time used before the attempt plus
\* its budget never exceeds the timeout; and the budget of a later attempt is
\* the earlier attempt's budget minus the time between the two launches, never
\* more than it.
C14_BudgetShrinks ==
  /\ [](run.child # "none" =>
          /\ run.budget = timeoutMs - (run.t0 - startedAt)
          /\ run.budget > 0
          /\ (run.t0 - startedAt) + run.budget <= timeoutMs)
  /\ [][(spawnCount' = spawnCount + 1 /\ spawnCount >= 1 /\ run'.child # "none") =>
          /\ run'.budget = run.budget - (run'.t0 - run.t0)
          /\ run'.budget <= run.budget]_vars

C14_Witness ==
  /\ spawnCount = 2 /\ run.child = "ok"
  /\ timeoutMs = 2 /\ run.t0 - startedAt = 1 /\ run.budget = 1

\* C15: a later attempt is launched only when the promise of the attempt
\* before it has resolved, its child has exited and its close event has been
\* handled; while the handler waits for an attempt that attempt is unsettled;
\* so at most one attempt's child runs at a time.
C15_AttemptsAreSequential ==
  /\ []((pc = "loop" /\ spawnCount >= 1) =>
          /\ run.settled /\ run.outcome.k = "resolved" /\ run.closed
          /\ leader.st = "exited" /\ leader.code = 0)
  /\ [](pc = "await" => (~run.settled /\ run.child \in {"ok", "failed"}))
  /\ [](leader.st = "running" => pc = "await")
  /\ [][(spawnCount' = spawnCount + 1 /\ spawnCount >= 1) =>
          (pc = "loop" /\ run.settled /\ leader.st # "running")]_vars

C15_Witness ==
  spawnCount = 2 /\ pc = "await" /\ leader.st = "running" /\ ~run.settled

\* the request with the keys removed that the backend does not support
WithoutIgnored(prov, r) ==
  [r EXCEPT !.model = Undefined,
            !.sandbox = IF "sandbox" \in AllowedArgKeys(prov) THEN r.sandbox ELSE Undefined]

HasArg(args, a) == \E i \in 1..Len(args) : args[i] = a

\* C16: a call to the backend tool with keys the backend does not support gets
\* no validation error because of them, and its prompt, budget, argument list
\* and stdin payload are those of the same request without these keys; the
\* keys' values are in neither the argument list nor the stdin payload, and
\* the keys are the ones named in the diagnostic line.
C16_IgnoredKeysHaveNoEffect ==
  (BackendCall /\ pc # "idle") =>
    LET r0 == WithoutIgnored(provider, req) IN
    /\ response.text.k # "Unknown tool"
    /\ response.text.k = "Missing required argument" => BlankPromptValue(req.prompt)
    /\ prompt = toStringArg(r0.prompt)
    /\ timeoutMs = ResolveTimeout(r0.timeout_ms, effectiveTimeout)
    /\ ~BlankPromptValue(req.prompt) =>
         cliArgs = BuildArgs(provider, toStringArg(r0.prompt), ExtraOpts(provider, r0, sandbox))
    /\ ignoredArgKeys =
         (IF req.model.t # "undefined" THEN {"model"} ELSE {})
           \cup (IF provider = "claude" /\ req.sandbox.t # "undefined"
                 THEN {"sandbox"} ELSE {})
    /\ run.child # "none" =>
         /\ run.args = cliArgs
         /\ run.stdin = [data |-> IF provider = "claude" THEN prompt ELSE <<>>,
                         ended |-> TRUE]
         /\ ~HasArg(run.args, <<"m">>)
         /\ \A i \in 1..Len(run.stdin.data) : run.stdin.data[i] # "m"
         /\ provider = "claude" =>
              (~HasArg(run.args, Arg("-s")) /\ ~HasArg(run.args, <<"true">>))

C16_Witness ==
  /\ BackendCall /\ provider = "claude"
  /\ req.model.t = "string" /\ IsTrue(req.sandbox)
  /\ ignoredArgKeys = {"model", "sandbox"}
  /\ run.child = "ok"

\* C17: a call to ping is answered at once with the success response "pong"
\* and spawns nothing, whatever its arguments and the startup timeout.
C17_PingReturnsPong ==
  req.name = "ping" =>
    /\ pc = "returned"
    /\ response = Success(Text(<<"pong">>))
    /\ respCount = 1
    /\ spawnCount = 0
    /\ run = NoRun
    /\ leader = NoLeader

C17_Witness ==
  /\ req.name = "ping" /\ pc = "returned"
  /\ req.prompt.t = "string" /\ req.model.t = "string"
  /\ IsInteger(req.timeout_ms) /\ req.timeout_ms.v = 0
  /\ effectiveTimeout = 1

\* C18 (as claimed): gemini backend: with sandbox true in the request the
\* argument list of the spawned process is -s, -p, prompt; with sandbox false
\* or absent from the request the list has no -s.
C18_DashSOnlyWhenRequested ==
  (provider = "gemini" /\ run.child # "none") =>
    /\ IsTrue(req.sandbox) => run.args = <<Arg("-s"), Arg("-p"), prompt>>
    /\ (req.sandbox.t = "undefined" \/ (req.sandbox.t = "boolean" /\ ~req.sandbox.v)) =>
         ~HasArg(run.args, Arg("-s"))

\* C18 (amended): gemini backend: the argument list is -s, -p, prompt when the
\* request's sandbox is true, or is absent or null while the server was
\* started with --sandbox true; in every other case it is -p, prompt.
C18_DashSFollowsRequestOrDefault ==
  (provider = "gemini" /\ run.child # "none") =>
    LET on == IF req.sandbox.t \in {"undefined", "null"} THEN sandbox
              ELSE (req.sandbox.t = "boolean" /\ req.sandbox.v) IN
    run.args = IF on THEN <<Arg("-s"), Arg("-p"), prompt>> ELSE <<Arg("-p"), prompt>>

C18_Witness ==
  /\ provider = "gemini" /\ sandbox /\ req.sandbox.t = "undefined"
  /\ run.child = "ok" /\ run.args = <<Arg("-s"), Arg("-p"), <<TXT>>>>

\* the argument list sets key to value with a -c option
HasOverride(args, key, value) ==
  \E i \in 1..(Len(args) - 1) : args[i] = Arg("-c") /\ args[i + 1] = <<key, "=", value>>

\* C19: pass-through mode: for every value of --model and
\* --model_reasoning_effort the argument list given to codex sets
\* sandbox_mode=read-only and approval_policy=never, holds no other setting of
\* these two keys, and never changes while the host runs.
C19_SafetyOverridesFixed ==
  /\ [](/\ codex.args[1] = Arg("mcp-server")
        /\ HasOverride(codex.args, "sandbox_mode", "read-only")
        /\ HasOverride(codex.args, "approval_policy", "never")
        /\ \A i \in 1..Len(codex.args) :
             /\ codex.args[i][1] = "sandbox_mode" =>
                  codex.args[i] = <<"sandbox_mode", "=", "read-only">>
             /\ codex.args[i][1] = "approval_policy" =>
                  codex.args[i] = <<"approval_policy", "=", "never">>)
  /\ [][codex'.args = codex.args]_vars

C19_Witness ==
  /\ codex.model.t = "string" /\ Len(codex.model.v) = 5
  /\ codex.modelReasoningEffort.t = "string" /\ Len(codex.modelReasoningEffort.v) = 5
  /\ codex.child.st = "running"
  /\ Len(codex.received) = 2
  /\ HasOverride(codex.args, "sandbox_mode", "read-only")

\* C20 (as claimed): pass-through mode: every SIGINT, SIGTERM or SIGHUP that
\* the host receives while the child is running is forwarded to the child, and
\* when a grace timer has run the child is not running and the host has exited
\* with 128 plus the number of that timer's signal.
C20_EverySignalForwarded ==
  /\ codex.forwarded = codex.receivedRunning
  /\ codex.timerFired # "" =>
       /\ codex.child.st # "running"
       /\ codex.host = [st |-> "exited", status |-> 128 + SIGNAL_CODES(codex.timerFired),
                        sig |-> ""]

\* the number of a signal (signal(7))
SignalNumber(sig) ==
  CASE sig = "SIGHUP" -> 1
    [] sig = "SIGINT" -> 2
    [] sig = "SIGKILL" -> 9
    [] sig = "SIGSEGV" -> 11
    [] sig = "SIGTERM" -> 15

\* C21 (as claimed): pass-through mode: when the host has exited after the
\* child's exit, and not through a grace timer, its exit status is the child's
\* exit code, or 128 plus the number of the signal that ended the child.
C21_ExitCodeMirrorsChild ==
  (codex.host.st = "exited" /\ codex.timerFired = ""
     /\ codex.child.st \in {"exited", "signaled"}) =>
    codex.host.status = IF codex.child.st = "exited" THEN codex.child.code
                        ELSE 128 + SignalNumber(codex.child.sig)

\* C22 (as claimed, first half): pass-through mode: under every interleaving
\* of the signals the host receives and of the child's exit, the host has not
\* terminated while the child is still running.
C22_HostNeverEndsBeforeChild ==
  codex.host.st \in {"exited", "signaled"} => codex.child.st # "running"

\* C23: once main has connected the server or started pass-through mode,
\* whatever is written to the host's standard output is a protocol response:
\* every log line (ready, running, retrying, done, the failures, the relayed
\* stderr of codex) is written to stderr.
C23_LogsGoToStderr ==
  server.st \in {"serving", "passthrough"} =>
    \A w \in wrote : (w.fd = "stdout" <=> w.text = "response")

C23_Witness ==
  /\ server.st = "serving"
  /\ wrote = {[fd |-> "stderr", text |-> "tools/call: empty output; retrying"]}
  /\ attempt = 2

\* C24 (as claimed): once a top-level handler (uncaughtException,
\* unhandledRejection) has run, a host that has ended has ended with a
\* non-zero exit status.
C24_FaultEndsNonZero ==
  server.faulted =>
    /\ server.st = "exited" => server.status # 0
    /\ (server.st = "passthrough" /\ codex.host.st = "exited") => codex.host.status # 0

\* C25: server mode: while the transport is open the keep-alive interval is
\* armed, and it is cleared only with the transport closed; the host has not
\* exited in any state where a call is being served, whether or not its stdin
\* has ended, so the call goes on to its response.
C25_KeepAliveHoldsHost ==
  /\ server.st = "serving" => (server.keepAlive <=> server.transport = "open")
  /\ pc # "idle" => server.st = "serving"
  /\ (server.st = "exited" /\ server.eofAt # "") => server.transport = "closed"

C25_Witness ==
  /\ server.st = "serving" /\ server.keepAlive
  /\ server.eofAt = "await"
  /\ pc = "returned" /\ respCount = 1 /\ ~response.isError

\* C26: after startup no step changes the selected provider, the default
\* timeout or the sandbox default; the sandbox default has been assigned once,
\* by main before the server is connected, for the backend that has one
\* (gemini) and never for the others, and no call assigns it again.
C26_StartupValuesFrozen ==
  /\ [](server.st # "start" =>
          server.sandboxWrites = IF HasSandboxProperty(provider) THEN 1 ELSE 0)
  /\ [][server.st # "start" =>
          /\ UNCHANGED <<provider, effectiveTimeout, sandbox>>
          /\ server'.sandboxWrites = server.sandboxWrites]_vars

C26_Witness ==
  /\ server.st = "serving" /\ provider = "gemini" /\ server.sandboxWrites = 1
  /\ pc = "returned" /\ IsTrue(req.sandbox) /\ spawnCount = 1
  /\ sandbox = FALSE

\* the positions of args where an option is expected: a value-taking flag is
\* followed by its value, every other argument by the next option
RECURSIVE OptionPositions(_, _)
OptionPositions(args, i) ==
  IF i > Len(args) THEN {}
  ELSE {i} \cup OptionPositions(args, IF args[i] \in ValueFlags THEN i + 2 ELSE i + 1)

\* the arguments that are zero, negative or not a number
BadTimeoutValues == ArgTokens \ {"2"}

\* the option at position p is one of the three faults
FaultAt(args, p) ==
  \/ args[p] \in ValueFlags /\ p = Len(args)
  \/ args[p] \notin ValueFlags \cup HelpFlags \cup VersionFlags
  \/ args[p] = "--timeout" /\ p < Len(args) /\ args[p + 1] \in BadTimeoutValues

\* no --help or --version stands at an option position before p
NoHelpBefore(args, p) ==
  \A q \in OptionPositions(args, 1) : q < p => args[q] \notin HelpFlags \cup VersionFlags

\* main ends the process with an error on stderr, having started nothing
EndsWithError ==
  /\ server'.st = "exited" /\ server'.status # 0
  /\ wrote' # {} /\ \A w \in wrote' : w.fd = "stderr"
  /\ codex' = NoCodex /\ spawnCount' = 0 /\ server'.transport = "none"

\* C27 (as claimed): whenever the arguments hold, at an option position, a
\* value-taking flag as the last argument, an unknown option, or --timeout with
\* a value that is zero, negative or not a number, the process writes an error
\* to stderr and exits with a non-zero status, nothing having been started.
C27_EveryFaultEndsWithError ==
  [][(server.st = "start"
       /\ \E p \in OptionPositions(server.argv, 1) : FaultAt(server.argv, p))
     => EndsWithError]_vars

\* C27 (amended): the same, for a fault that no --help, -h, --version or -v
\* precedes; when one does, the process prints to stdout and exits with 0.
C27_FirstFaultEndsWithError ==
  [][server.st = "start" =>
       IF \E p \in OptionPositions(server.argv, 1) :
            FaultAt(server.argv, p) /\ NoHelpBefore(server.argv, p)
       THEN EndsWithError
       ELSE (\E p \in OptionPositions(server.argv, 1) : FaultAt(server.argv, p)) =>
              /\ server'.st = "exited" /\ server'.status = 0
              /\ \A w \in wrote' : w.fd = "stdout"]_vars

C27_Witness ==
  /\ server.st = "exited" /\ server.status = 1
  /\ wrote = {[fd |-> "stderr", text |-> "error: --timeout must be a positive number"]}
  /\ codex = NoCodex /\ spawnCount = 0

\* C28 (as claimed): claude backend: when the first attempt has exited cleanly
\* with non-blank normalized text, the call returns a success response with
\* that text after exactly one spawn.
C28_FirstTextIsSuccess ==
  (provider = "claude" /\ lastResult /\ blankNorm = 0) =>
    /\ pc = "returned" /\ respCount = 1
    /\ response = Success(Text(lastNormalized.text))
    /\ spawnCount = 1 /\ attempt = 1

\* C28 (amended): the same, when the normalized result is not flagged as an
\* error; a flagged result with non-blank text is returned as an error.
C28_FirstUnflaggedTextIsSuccess ==
  (provider = "claude" /\ lastResult /\ blankNorm = 0) =>
    /\ pc = "returned" /\ respCount = 1
    /\ response = IF lastNormalized.isError THEN Failure(Text(Trim(lastNormalized.text)))
                  ELSE Success(Text(lastNormalized.text))
    /\ spawnCount = 1 /\ attempt = 1

C28_Witness ==
  /\ provider = "claude" /\ lastResult /\ blankNorm = 0
  /\ run.stdout = <<J_OK>> /\ leader.code = 0
  /\ pc = "returned" /\ ~response.isError /\ spawnCount = 1

\* C29: one call spawns at most 2 processes for the claude backend and at most
\* 1 for every other backend; a call to another backend whose attempt exited
\* cleanly with blank normalized text is not retried: it has spawned once and
\* what it returns is an error.
C29_SpawnsWithinCeiling ==
  /\ spawnCount <= (IF provider = "claude" THEN 2 ELSE 1)
  /\ (provider # "claude" /\ blankNorm >= 1) =>
       /\ spawnCount = 1 /\ blankNorm = 1
       /\ pc \in {"loop", "returned"}
       /\ pc = "returned" => (respCount = 1 /\ response.isError)

C29_Witness ==
  /\ provider = "gemini" /\ blankNorm = 1 /\ spawnCount = 1
  /\ pc = "returned" /\ response = Failure(Msg(EmptyMsg, "gemini"))

\* C30 (as claimed): once an attempt's normalized result has isError = true,
\* the call has returned an error response carrying the normalized text and
\* has spawned nothing after that attempt.
C30_ErrorPayloadReturnsItsText ==
  (lastResult /\ lastNormalized.isError) =>
    /\ pc = "returned" /\ respCount = 1
    /\ response = Failure(Text(lastNormalized.text))
    /\ spawnCount = attempt

\* C30 (amended): the same, the response carrying the trimmed normalized text,
\* or, when that text is blank, the message `<command> returned is_error=true`.
C30_ErrorPayloadReturnsAtOnce ==
  (lastResult /\ lastNormalized.isError) =>
    /\ pc = "returned" /\ respCount = 1
    /\ response = IF Trim(lastNormalized.text) # <<>>
                  THEN Failure(Text(Trim(lastNormalized.text)))
                  ELSE Failure(Msg("returned is_error=true", provider))
    /\ spawnCount = attempt

C30_Witness ==
  /\ provider = "claude" /\ lastResult /\ lastNormalized.isError
  /\ run.stdout = <<J_ERR>> /\ leader.code = 0
  /\ pc = "returned" /\ response.isError
  /\ attempt = 1 /\ spawnCount = 1 /\ Remaining > 0

\* C31: runCli: once the child has closed with a non-zero exit code or after
\* dying of a signal, the promise is rejected and never resolved; when the
\* close is what settled it (no stream had overflowed), the error names the
\* command, the reason (the exit code or the signal) and the captured stderr.
C31_AbnormalCloseRejects ==
  (run.closed /\ (leader.sig # "" \/ leader.code # 0)) =>
    /\ run.settled /\ run.outcome.k = "rejected"
    /\ (~Overflows(run.stdoutLen) /\ ~Overflows(run.stderrLen)) =>
         run.outcome.err =
           [k |-> "failed", command |-> Command(provider),
            reason |-> IF leader.sig # ""
                       THEN [kind |-> "killed by", code |-> 0, signal |-> leader.sig]
                       ELSE [kind |-> "exit code", code |-> leader.code, signal |-> ""],
            stderr |-> run.stderr]

C31_Witness ==
  /\ run.closed /\ leader.sig = "SIGTERM"
  /\ run.stderr # <<>>
  /\ run.outcome.k = "rejected" /\ run.outcome.err.k = "failed"
  /\ run.outcome.err.stderr = run.stderr

\* the bytes of the chunks of a captured stream
RECURSIVE SumBytes(_)
SumBytes(chunks) ==
  IF chunks = <<>> THEN 0 ELSE TokBytes(Head(chunks)) + SumBytes(Tail(chunks))

\* C32: runCli: the promise resolves exactly on a close with exit code 0 and no
\* signal of a run not settled before; the result's output is then the
\* captured stdout when it is non-empty and the captured stderr otherwise,
\* without trailing whitespace, and stdoutBytes and stderrBytes are the bytes
\* received on each stream.
C32_CleanExitResult ==
  /\ run.outcome.k = "resolved" =>
       /\ run.closed /\ leader.st = "exited" /\ leader.code = 0 /\ leader.sig = ""
       /\ run.outcome.result.output =
            TrimEnd(IF run.stdout # <<>> THEN run.stdout ELSE run.stderr)
       /\ run.outcome.result.stdoutBytes = SumBytes(run.stdout)
       /\ run.outcome.result.stderrBytes = SumBytes(run.stderr)
  /\ (run.closed /\ leader.st = "exited" /\ leader.code = 0 /\ leader.sig = "") =>
       run.outcome.k = "resolved"

C32_Witness ==
  /\ run.outcome.k = "resolved"
  /\ run.stdout = <<>> /\ run.stderr = <<TXT>>
  /\ run.outcome.result.output = <<TXT>>
  /\ run.outcome.result.stdoutBytes = 0 /\ run.outcome.result.stderrBytes > 0

\* C33 (as claimed): runCli: for a run whose command could not be started, the
\* promise is rejected with the error `Failed to start <command>` once the
\* error event is handled, and the deadline timer was never armed and no
\* chunk was ever received.
C33_NoTimerOnFailedStart ==
  run.child = "failed" =>
    /\ ~run.timer /\ ~run.timerFired
    /\ run.chunks = 0 /\ run.stdout = <<>> /\ run.stderr = <<>>
    /\ run.errored =>
         run.outcome = [k |-> "rejected",
                        err |-> [k |-> "Failed to start", command |-> Command(provider)]]

\* C33 (amended): the same, except that the deadline timer is armed at the
\* spawn like that of every run; it is cleared when the error settles the run.
C33_FailedStartRejects ==
  run.child = "failed" =>
    /\ leader = NoLeader
    /\ run.chunks = 0 /\ run.stdout = <<>> /\ run.stderr = <<>>
    /\ ~run.errored => (run.outcome.k = "pending" /\ (run.timer \/ run.timerFired))
    /\ run.errored =>
         /\ ~run.timer
         /\ run.outcome = [k |-> "rejected",
                            err |-> [k |-> "Failed to start", command |-> Command(provider)]]
         /\ pc = "returned" /\ response.isError

C33_Witness ==
  /\ run.child = "failed" /\ run.errored /\ ~run.timer
  /\ run.outcome.k = "rejected" /\ run.outcome.err.k = "Failed to start"
  /\ pc = "returned" /\ spawnCount = 1

\* the JSON documents that are an object whose type is "result"
ResultEnvelopes ==
  {J_ERR, J_ERR_BLANK, J_BLANK, J_OK, J_ERR_STRING, J_ERR_ONE, J_NO_FLAG, J_NO_RESULT}

\* the result field of a result envelope, as a string
ResultText(tok) ==
  CASE tok \in {J_ERR, J_OK, J_ERR_STRING, J_ERR_ONE, J_NO_FLAG} -> <<TXT>>
    [] tok = J_BLANK -> <<WS>>
    [] tok \in {J_ERR_BLANK, J_NO_RESULT} -> <<>>

\* C34: claude backend.  The normalized form of an attempt's output is: text ""
\* with isError = false when the output is empty after trimming; the result
\* field as a string when the trimmed output is one JSON object of type
\* "result"; and the raw output, unchanged, with isError = false when the
\* output does not parse or parses to any other shape.
C34_NormalizedText ==
  (provider = "claude" /\ run.settled /\ run.outcome.k = "resolved") =>
    LET output == ResolvedOutput
        trimmed == Trim(output) IN
    /\ lastResult
    /\ trimmed = <<>> => lastNormalized = [text |-> <<>>, isError |-> FALSE]
    /\ (\E tok \in ResultEnvelopes : trimmed = <<tok>>) =>
         lastNormalized.text = ResultText(trimmed[1])
    /\ (trimmed # <<>> /\ ~\E tok \in ResultEnvelopes : trimmed = <<tok>>) =>
         lastNormalized = [text |-> output, isError |-> FALSE]

\* a JSON object of another type behind leading white space came back whole
C34_Witness ==
  /\ provider = "claude" /\ run.settled /\ run.outcome.k = "resolved"
  /\ ResolvedOutput = <<WS, J_OTHER_TYPE>>
  /\ lastNormalized = [text |-> <<WS, J_OTHER_TYPE>>, isError |-> FALSE]

\* C35: every attempt's child has its stdin ended at spawn.  For claude the
\* raw prompt is what was written before the end and no argument is the prompt;
\* for a backend that takes the prompt as an argument nothing was written and
\* the prompt is an argument.
C35_StdinEndedAtSpawn ==
  (run.child # "none" /\ pc \in {Awaited, "loop"}) =>
    /\ run.stdin.ended
    /\ run.args = cliArgs
    /\ provider = "claude" =>
         /\ run.stdin.data = prompt
         /\ \A i \in 1..Len(run.args) : run.args[i] # prompt
    /\ provider # "claude" =>
         /\ run.stdin.data = <<>>
         /\ \E i \in 1..Len(run.args) : run.args[i] = prompt

\* the second attempt of a claude call was given the prompt, white space included
C35_Witness ==
  /\ provider = "claude" /\ spawnCount = 2 /\ pc = Awaited
  /\ run.child = "ok" /\ leader.st = "running"
  /\ run.stdin = [data |-> <<WS, TXT>>, ended |-> TRUE]

\* the locals of invocation i
LocalsOf(i) == IF other.id = i THEN other.locals ELSE Locals

\* C36: with two calls in flight, whatever the order of their callbacks, an
\* invocation's state (its response, attempt counter, budget, runCli closure
\* and child) changes only in a step of its own handler or child, a step that
\* leaves the other invocation as it is; a step of the other invocation and a
\* switch between the two change nothing of it.
C36_InvocationsIndependent ==
  [][\A i \in {1, 2} :
       LocalsOf(i)' # LocalsOf(i) => (other.id # i /\ other' = other)]_vars

\* the first call has returned its text after one attempt while the
\* second, which started later with a shorter timeout, is at its second attempt
C36_Witness ==
  /\ provider = "claude"
  /\ LocalsOf(1).pc = "returned" /\ LocalsOf(1).response.isError = FALSE
  /\ LocalsOf(1).spawnCount = 1 /\ LocalsOf(1).req.timeout_ms = Undefined
  /\ LocalsOf(2).pc = Awaited /\ LocalsOf(2).spawnCount = 2
  /\ LocalsOf(2).req.timeout_ms = Num(1) /\ LocalsOf(2).startedAt = 1
  /\ LocalsOf(2).lastResult /\ LocalsOf(2).lastNormalized.text = <<>>

\* C37: runCli settles once per attempt.  The step that settles an attempt
\* fixes its outcome: whatever comes later for the same attempt (a further
\* chunk, the close after an overflow, the close after a failed spawn) leaves
\* the run settled with the same outcome; a settled run has no deadline timer
\* armed, and the handler has resumed at most once for it.
C37_SettlesOnce ==
  [][/\ run'.settled => ~run'.timer
     /\ (run.settled /\ spawnCount' = spawnCount) =>
          (run'.settled /\ run'.outcome = run.outcome)
     /\ respCount' <= 1]_vars

\* the close that followed a stdout overflow left the overflow's error in place
C37_Witness ==
  /\ run.settled /\ run.closed /\ ~run.timer
  /\ run.outcome.k = "rejected" /\ run.outcome.err.k = "maxBuffer exceeded"
  /\ leader.sig = "SIGKILL"
  /\ respCount = 1

\* C38: a further attempt is launched only from the loop head reached after an
\* attempt, and there the previous attempt has closed after a clean exit
\* (status 0, no signal), was not killed by the deadline timer, overflowed no
\* buffer, and its normalized text is blank; an attempt whose promise was
\* rejected (timeout kill, overflow, non-zero exit, failed start) ends the
\* call with a response, and every attempt before the latest was blank.
C38_RetryOnlyAfterBlankCleanExit ==
  /\ (pc = "loop" /\ spawnCount >= 1) =>
       /\ run.child = "ok" /\ run.closed /\ run.outcome.k = "resolved"
       /\ leader.st = "exited" /\ leader.code = 0 /\ leader.sig = ""
       /\ ~Overflows(run.stdoutLen) /\ ~Overflows(run.stderrLen)
       /\ ~timedOut
       /\ lastResult /\ Trim(lastNormalized.text) = <<>>
       /\ lastNormalized = normalizeToolOutput(provider, run.outcome.result.output)
  /\ (run.settled /\ run.outcome.k = "rejected") => pc = "returned"
  /\ spawnCount >= 2 => blankNorm >= spawnCount - 1

\* the retry of a blank clean exit is running
C38_Witness ==
  /\ spawnCount = 2 /\ pc = Awaited /\ run.outcome.k = "pending"
  /\ blankNorm = 1 /\ lastResult /\ lastNormalized.text = <<WS>>
  /\ leader.st = "running"

\* a live descendant that has left the child's process group and still holds
\* the write end of an output pipe
DetachedHolder ==
  \E d \in Desc : desc[d].st = "alive" /\ desc[d].holdsPipe /\ ~desc[d].inGroup

\* C39: every call that has reached the retry loop eventually has a response,
\* whatever the subprocess does, given that timers fire and events are
\* delivered.
C39_EveryCallReturns == (pc \in {"loop", Awaited}) ~> (pc = "returned")

\* the part of C39 that the code does guarantee: a call that never returns is
\* one whose output pipe is held by a descendant outside the killed group
C39_ReturnsUnlessDetachedHolder ==
  (pc \in {"loop", Awaited}) ~> (pc = "returned" \/ DetachedHolder)

\* the hang: the deadline has passed and the group was killed, the child is
\* gone, and the call still waits for a close that the detached holder withholds
C39_Witness ==
  /\ pc = Awaited /\ run.outcome.k = "pending"
  /\ run.timerFired /\ ~run.timer
  /\ leader.st \in {"exited", "signaled"}
  /\ DetachedHolder

\* C40: pass-through mode: when the host has exited after it handled the
\* child's exit (the child ended by itself or of a forwarded signal), no grace
\* timer has run and the host's status is the one mirrored from the child: its
\* exit code, or 128 plus the number of the signal that ended it.
C40_ChildExitInGraceIsMirrored ==
  (/\ codex.host.st = "exited" /\ codex.handled
   /\ codex.child.st \in {"exited", "signaled"}
   /\ codex.child.sig \in ForwardedSignals \cup {""}) =>
    /\ codex.timerFired = ""
    /\ codex.host.status = IF codex.child.st = "exited" THEN codex.child.code
                           ELSE 128 + SignalNumber(codex.child.sig)

\* codex answered the forwarded SIGTERM by exiting with 0 and the host handled
\* the exit; the grace timer ran all the same and the host ended with 143
C40_Witness ==
  /\ codex.received = <<"SIGTERM">> /\ codex.forwarded = <<"SIGTERM">>
  /\ codex.child = [st |-> "exited", code |-> 0, sig |-> ""]
  /\ codex.handled /\ codex.exitCode = 0
  /\ codex.timerFired = "SIGTERM"
  /\ codex.host = [st |-> "exited", status |-> 143, sig |-> ""]

====
